---- MODULE Spec2Model ----
(***************************************************************************)
(* Model of the curve-driven particle systems of hemi/curve.js:            *)
(*   - GpuParticleCurveSystem and GpuParticleTrail playback (Spec),        *)
(*   - Particle, the CPU-path per-object state machine (SpecParticle),     *)
(*   - ParticleCurveSystem, the CPU-path emission scheduler (SpecCpu),     *)
(*   - the configuration setters and setupShaders (SpecConfig),            *)
(*   - playback and reconfiguration of a GPU system together               *)
(*     (SpecPlayback),                                                     *)
(*   - Curve.interpolate (SpecCurve),                                      *)
(*   - the debug overlay, showBoxes and hideBoxes (SpecBoxes).             *)
(*                                                                         *)
(* Shader-time values (sysTime, ptcMaxTime, ptcDec, endTime) are floating  *)
(* point numbers in the source; they are kept here in fixed point, Unit    *)
(* steps to 1.0, so that 1.1 is Unit + Unit \div 10.                       *)
(***************************************************************************)
EXTENDS Integers, Sequences, FiniteSets, TLC

VARIABLES
    kind,          \* which constructor createCurveSystem picked
    life,          \* GpuParticleCurveSystem.life
    active,        \* GpuParticleCurveSystem.active
    timeParam,     \* timeParam.value     (uniform sysTime)
    maxTimeParam,  \* maxTimeParam.value  (uniform ptcMaxTime)
    decParam,      \* decParam.value      (uniform ptcDec)
    endTime,       \* GpuParticleTrail.endTime
    starting,      \* GpuParticleTrail.starting
    stopping,      \* GpuParticleTrail.stopping
    listeners,     \* how many times the system is in the render-listener list
    sinceStop,     \* history: normalised time ticked since a soft stop took effect
    started,       \* history: start() or play() has been called
    lastOp,        \* history: the call made last, its argument, and the
                   \* active/stopping/starting flags it found on entry
    prevOp,        \* history: the call made before lastOp
    sysActive,     \* ParticleCurveSystem.active
    pLife,         \* ParticleCurveSystem.pLife
    maxParticles,  \* ParticleCurveSystem.maxParticles
    maxRate,       \* ParticleCurveSystem.maxRate
    pRate,         \* ParticleCurveSystem.pRate
    pTimer,        \* ParticleCurveSystem.pTimer
    pTimerMax,     \* ParticleCurveSystem.pTimerMax
    pIndex,        \* ParticleCurveSystem.pIndex
    particles,     \* ParticleCurveSystem.particles (0-based pool of Particle)
    ret,           \* history: value returned by the last call (setRate, changeRate)
    runLoops,      \* history: loops of the run() in progress from a ready
                   \* particle at frame 1 (0 when there is none)
    calls,         \* history: update() calls made on the particle since that run()
    atStop,        \* history: the pool slots that were active when the system
                   \* was last stopped softly (none once it is started again)
    aim,           \* GpuParticleCurveSystem.aim
    boxes,         \* GpuParticleCurveSystem.boxes.length
    colors,        \* GpuParticleCurveSystem.colors
    scales,        \* GpuParticleCurveSystem.scales
    material,      \* GpuParticleCurveSystem.material
    materialSrc,   \* GpuParticleCurveSystem.materialSrc
    transform,     \* GpuParticleCurveSystem.transform is set
    ptcShape,      \* GpuParticleCurveSystem.ptcShape
    numPtcs,       \* GpuParticleCurveSystem.particles
    colorKeys,     \* Particle.colorKeys
    sKeys,         \* Particle.setScales: the keys its scales are sampled from
    threw,         \* history: the last call raised an error
    wove,          \* history: the shader stages the last call rewrote
    curve,         \* a Curve: type, count, xpts, xtans (doubled), weights
    point,         \* the last interpolate(t) call: t, segment index and result
    dbgBoxTransforms, \* the registry of debug box meshes, by transform id
    children,      \* the debug box meshes attached to each system's transform
    boxCounts,     \* boxes.length of each system
    meshes,        \* history: the number of debug box meshes created
    hid            \* history: the systems whose hideBoxes() was called since
                   \* the last showBoxes() call

gpuVars == <<kind, life, active, timeParam, maxTimeParam, decParam, endTime,
             starting, stopping, listeners, sinceStop, started>>
cpuVars == <<sysActive, pLife, maxParticles, maxRate, pRate, pTimer,
             pTimerMax, pIndex, particles, ret, runLoops, calls, atStop>>
cfgVars == <<aim, boxes, colors, scales, material, materialSrc, transform,
             ptcShape, numPtcs, colorKeys, sKeys, threw, wove, curve, point>>
dbgVars == <<dbgBoxTransforms, children, boxCounts, meshes, hid>>
vars == <<gpuVars, cpuVars, cfgVars, dbgVars, lastOp, prevOp>>

----------------------------------------------------------------------------
(* Bounds of the model *)

MaxLife == 2        \* configured lifetimes are 0 (absent) .. MaxLife seconds
MaxDelta == 25      \* the longest tick, as elapsedTime/life in fixed point
MaxLastFrame == 3   \* particles are built from 3 .. MaxLastFrame + 2 points
MaxLoops == 2       \* run(loops) is called with 0 .. MaxLoops
MaxParticles == 4   \* configured particleCount is 1 .. MaxParticles
MaxLoad == 4        \* pools are built with (particleCount - 1) * (lastFrame - 1)
                    \* of at most MaxLoad: large pools of short runs, small
                    \* pools of long runs
MaxKeys == 3        \* colour and scale ramps are configured with 0 .. MaxKeys keys
MaxBoxes == 3       \* setBoxes is called with 0 .. MaxBoxes boxes
MaxPoints == 3      \* curves are built from 2 .. MaxPoints waypoints
TimeSteps == 4      \* interpolate(t) is called with t = k / TimeSteps
MaxSystems == 2     \* showBoxes and hideBoxes are called on 1 .. MaxSystems systems
MaxMeshes == 6      \* showBoxes is called until MaxMeshes debug boxes were made

----------------------------------------------------------------------------
(* Numbers of the source, in fixed point *)

Unit == 10                          \* 1.0
DefaultLife == 5                    \* cfg.life || 5
StartTime == Unit                   \* start(): timeParam.value = 1.0
StartMaxTime == Unit                \* start(): maxTimeParam.value = 1.0
StopTime == Unit + Unit \div 10     \* stop(): timeParam.value = 1.1
StopMaxTime == 3 * Unit             \* stop(): maxTimeParam.value = 3.0
InitDec == Unit                     \* setupShaders: dec = 1.0
TrailInitEnd == Unit                \* GpuParticleTrail: endTime = 1.0
TrailStartEnd == 2 * Unit           \* Trail start(): endTime = 2.0
TrailStartDec == 2 * Unit           \* Trail start(): decParam.value = 2.0
TrailStartMax == 2 * Unit           \* Trail start(): maxTimeParam.value = 2.0
TrailSteadyEnd == Unit              \* Trail onRender: endTime = 1.0
TrailSteadyDec == Unit              \* Trail onRender: decParam.value = 1.0
TrailSteadyMax == Unit              \* Trail onRender: maxTimeParam.value = 1.0
HardEndPositive == Unit             \* variant: +1.0 where the source has -1.0
HardEnd == 0 - Unit                 \* Trail stop(true): endTime = -1.0
SoftGrace == Unit                   \* Trail stop(): timeParam.value + 1.0

CfgLives == 0..MaxLife
Deltas == {0, Unit \div 2, Unit, MaxDelta}

\* the elapsed times a tick may carry for a system of lifetime l: the
\* multiples of l, so that elapsedTime / life is exact in fixed point
ElapsedTimes(l) == {d * l : d \in Deltas}

----------------------------------------------------------------------------
(* The render-listener list of the hemi core, seen from one system: the    *)
(* number of entries the system has in it.  Adding appends an entry;       *)
(* removing takes one entry away and does nothing when there is none.      *)

AddRenderListener(n) == n + 1
RemoveRenderListener(n) == IF n > 0 THEN n - 1 ELSE 0

Call(op, arg, act, stp, stg) ==
    [op |-> op, arg |-> arg, act |-> act, stp |-> stp, stg |-> stg]

Log(op, arg) ==
    /\ lastOp' = Call(op, arg, active, stopping, starting)
    /\ prevOp' = lastOp
    /\ started' = (started \/ op \in {"start", "play"})
    /\ UNCHANGED cfgVars
    /\ UNCHANGED dbgVars

----------------------------------------------------------------------------
(* Materials and shader sources.  A shader source is described by what the *)
(* composition in setupShaders puts into it: how many times the curve      *)
(* fragments were woven in (the source contains the marker 'ptcInterp',    *)
(* respectively 'ptcColor', exactly when that is more than zero) and the   *)
(* NUM_BOXES, NUM_COLORS, NUM_SCALES and aim variant it was woven for.     *)

\* the vertex source of a material the curve code has not touched
BaseVert == [woven |-> 0, boxes |-> 0, colors |-> 0, scales |-> 0, aim |-> FALSE]

\* the fragment source of a material the curve code has not touched
BaseFrag == [woven |-> 0, colors |-> FALSE]

\* this.material = null
NoMaterial ==
    [exists |-> FALSE, program |-> FALSE, isCurveGen |-> FALSE,
     vert |-> BaseVert, frag |-> BaseFrag, uniforms |-> {}]

\* newMaterial(): a Phong material that has no program yet
NewMaterial == [NoMaterial EXCEPT !.exists = TRUE]

\* this.materialSrc = null
NoMaterialSrc == [exists |-> FALSE, vert |-> BaseVert, frag |-> BaseFrag]

\* this.ptcShape = 0
NoShape == "none"

\* var Curve = function(): a curve without waypoints
NoCurve ==
    [type |-> "Linear", count |-> 0, xpts |-> <<>>, xtans |-> <<>>,
     weights |-> <<>>]

\* no interpolate call was made yet
NoPoint == [t |-> 0 - 1, ndx |-> 0, num |-> 0, den |-> 1, nan |-> FALSE]

\* var dbgBoxTransforms = {}: no debug boxes are shown
NoDbg ==
    /\ dbgBoxTransforms = <<>>
    /\ children = <<>>
    /\ boxCounts = <<>>
    /\ meshes = 0
    /\ hid = {}

\* the fields of a GPU system and the keys of a Particle in a specification
\* that does not use them
NoGpuCfg ==
    /\ NoDbg
    /\ aim = FALSE
    /\ boxes = 0
    /\ colors = <<>>
    /\ scales = <<>>
    /\ material = NoMaterial
    /\ materialSrc = NoMaterialSrc
    /\ transform = FALSE
    /\ ptcShape = NoShape
    /\ numPtcs = 0
    /\ colorKeys = <<>>
    /\ sKeys = <<>>
    /\ threw = FALSE
    /\ wove = {}

\* the configuration and curve variables in a specification that does not
\* use them
NoCfg ==
    /\ NoGpuCfg
    /\ curve = NoCurve
    /\ point = NoPoint

----------------------------------------------------------------------------
(* GpuParticleCurveSystem *)

\* loadConfig: this.life = cfg.life || 5
LoadLife(cfg) == IF cfg = 0 THEN DefaultLife ELSE cfg

\* onRender: delta = e.elapsedTime / this.life
Delta(e, l) == e \div l

\* variant: a single decrement, an if where the source has a while
GpuWrapOnce(newTime) == IF newTime > Unit THEN newTime - Unit ELSE newTime

\* variant: the wrap test with >= instead of >
RECURSIVE GpuWrapAtOne(_)
GpuWrapAtOne(newTime) ==
    IF newTime >= Unit THEN GpuWrapAtOne(newTime - Unit) ELSE newTime

\* onRender: while (newTime > 1.0) { --newTime; }
RECURSIVE GpuWrap(_)
GpuWrap(newTime) == IF newTime > Unit THEN GpuWrap(newTime - Unit) ELSE newTime

\* variant: any maxTime of at least 1.0 counts as paused
GpuCanResumeAtLeast(maxTime) == maxTime >= StartMaxTime

\* play: this.maxTimeParam.value === 1.0
GpuCanResume(maxTime) == maxTime = StartMaxTime

\* variant: start() that runs whether or not the system is active
GpuCanStartAlways(a) == TRUE

\* start: if (!this.active)
GpuCanStart(a) == ~a

\* variant: start() that does not reset maxTime
GpuStartBodyKeepMax ==
    IF ~active
    THEN /\ active' = TRUE
         /\ timeParam' = StartTime
         /\ listeners' = AddRenderListener(listeners)
         /\ UNCHANGED maxTimeParam
    ELSE UNCHANGED <<active, timeParam, maxTimeParam, listeners>>

\* the body of GpuParticleCurveSystem.prototype.start
GpuStartBody ==
    IF GpuCanStart(active)
    THEN /\ active' = TRUE
         /\ timeParam' = StartTime
         /\ maxTimeParam' = StartMaxTime
         /\ listeners' = AddRenderListener(listeners)
    ELSE UNCHANGED <<active, timeParam, maxTimeParam, listeners>>

GpuStart ==
    /\ kind = "base"
    /\ GpuStartBody
    /\ Log("start", 0)
    /\ UNCHANGED <<kind, life, decParam, endTime, starting, stopping, sinceStop>>
    /\ UNCHANGED cpuVars

GpuStop ==
    /\ kind = "base"
    /\ IF active
       THEN /\ active' = FALSE
            /\ timeParam' = StopTime
            /\ maxTimeParam' = StopMaxTime
            /\ listeners' = RemoveRenderListener(listeners)
       ELSE UNCHANGED <<active, timeParam, maxTimeParam, listeners>>
    /\ Log("stop", 0)
    /\ UNCHANGED <<kind, life, decParam, endTime, starting, stopping, sinceStop>>
    /\ UNCHANGED cpuVars

\* the render loop calls onRender of every registered listener
GpuOnRender(e) ==
    /\ kind = "base"
    /\ listeners > 0
    /\ timeParam' = GpuWrap(timeParam + Delta(e, life))
    /\ Log("tick", Delta(e, life))
    /\ UNCHANGED <<kind, life, active, maxTimeParam, decParam, endTime,
                   starting, stopping, listeners, sinceStop>>
    /\ UNCHANGED cpuVars

\* pause is inherited by GpuParticleTrail
GpuPause ==
    /\ kind \in {"base", "trail"}
    /\ IF active
       THEN /\ listeners' = RemoveRenderListener(listeners)
            /\ active' = FALSE
       ELSE UNCHANGED <<listeners, active>>
    /\ Log("pause", 0)
    /\ UNCHANGED <<kind, life, timeParam, maxTimeParam, decParam, endTime,
                   starting, stopping, sinceStop>>
    /\ UNCHANGED cpuVars

GpuPlay ==
    /\ kind = "base"
    /\ IF ~active
       THEN IF GpuCanResume(maxTimeParam)
            THEN /\ listeners' = AddRenderListener(listeners)
                 /\ active' = TRUE
                 /\ UNCHANGED <<timeParam, maxTimeParam>>
            ELSE GpuStartBody
       ELSE UNCHANGED <<active, timeParam, maxTimeParam, listeners>>
    /\ Log("play", 0)
    /\ UNCHANGED <<kind, life, decParam, endTime, starting, stopping, sinceStop>>
    /\ UNCHANGED cpuVars

\* setLife is inherited by GpuParticleTrail
GpuSetLife(l) ==
    /\ kind \in {"base", "trail"}
    /\ life' = IF l > 0 THEN l ELSE life
    /\ Log("setLife", l)
    /\ UNCHANGED <<kind, active, timeParam, maxTimeParam, decParam, endTime,
                   starting, stopping, listeners, sinceStop>>
    /\ UNCHANGED cpuVars

----------------------------------------------------------------------------
(* GpuParticleTrail *)

\* variant: the end of the window compared with >= instead of >
TrailPastEndOrAt(newTime, end) == newTime >= end

\* onRender: if (newTime > this.endTime)
TrailPastEnd(newTime, end) == newTime > end

\* variant: the loop goes on while the time is at endTime, >= for >
RECURSIVE TrailWrapAtEnd(_, _)
TrailWrapAtEnd(newTime, end) ==
    IF newTime - Unit >= end THEN TrailWrapAtEnd(newTime - Unit, end)
    ELSE newTime - Unit

\* variant: a single decrement, an if where the source has a while
TrailWrapOnce(newTime, end) == newTime - Unit

\* onRender: while (--newTime > this.endTime) {}
RECURSIVE TrailWrap(_, _)
TrailWrap(newTime, end) ==
    IF newTime - Unit > end THEN TrailWrap(newTime - Unit, end) ELSE newTime - Unit

\* variant: the resume test of the base class, without the trail flags
TrailCanResumeSteadyOnly(s, p, maxTime) == maxTime = TrailSteadyMax

\* play: this.starting || this.stopping || this.maxTimeParam.value === 1.0
TrailCanResume(s, p, maxTime) == s \/ p \/ maxTime = TrailSteadyMax

\* variant: every soft stop restarts the grace period
TrailSoftEndAlways(p, end, time) == time + SoftGrace

\* stop: this.endTime = this.timeParam.value + 1.0, unless already stopping
TrailSoftEnd(p, end, time) == IF ~p THEN time + SoftGrace ELSE end

\* variant: finalisation that leaves the trail on the listener list
TrailFinalListenersKept(fin, n) == n

\* onRender, finalising a stop: hemi.removeRenderListener(this)
TrailFinalListeners(fin, n) == IF fin THEN RemoveRenderListener(n) ELSE n

TrailOnRender(e) ==
    /\ kind = "trail"
    /\ listeners > 0
    /\ LET delta == Delta(e, life)
           newTime == timeParam + delta
           past == TrailPastEnd(newTime, endTime)
           fin == past /\ stopping
           steady == past /\ ~stopping /\ starting
       IN  /\ active' = IF fin THEN FALSE ELSE active
           /\ stopping' = IF fin THEN FALSE ELSE stopping
           /\ listeners' = TrailFinalListeners(fin, listeners)
           /\ starting' = IF steady THEN FALSE ELSE starting
           /\ endTime' = IF steady THEN TrailSteadyEnd ELSE endTime
           /\ decParam' = IF steady THEN TrailSteadyDec ELSE decParam
           /\ maxTimeParam' = IF fin THEN StopMaxTime
                              ELSE IF stopping THEN maxTimeParam + delta
                              ELSE IF steady THEN TrailSteadyMax
                              ELSE maxTimeParam
           /\ timeParam' = IF fin THEN StopTime
                           ELSE IF past THEN TrailWrap(newTime, endTime')
                           ELSE newTime
           /\ sinceStop' = IF stopping THEN sinceStop + delta ELSE sinceStop
           /\ Log("tick", delta)
    /\ UNCHANGED <<kind, life>>
    /\ UNCHANGED cpuVars

\* start, the block under if (!this.active), entered with n listeners
TrailStartBody(n) ==
    /\ active' = TRUE
    /\ starting' = TRUE
    /\ stopping' = FALSE
    /\ endTime' = TrailStartEnd
    /\ decParam' = TrailStartDec
    /\ maxTimeParam' = TrailStartMax
    /\ timeParam' = StartTime
    /\ listeners' = AddRenderListener(n)

\* variant: a stopping trail is restarted without leaving the listener list
TrailStartCallKeepListener ==
    IF stopping \/ ~active
    THEN TrailStartBody(listeners)
    ELSE UNCHANGED <<active, starting, stopping, endTime, decParam,
                     maxTimeParam, timeParam, listeners>>

\* the whole of GpuParticleTrail.prototype.start: a stopping trail is first
\* taken off the listener list and made inactive, so the block always runs
TrailStartCall ==
    IF stopping
    THEN TrailStartBody(RemoveRenderListener(listeners))
    ELSE IF ~active
         THEN TrailStartBody(listeners)
         ELSE UNCHANGED <<active, starting, stopping, endTime, decParam,
                          maxTimeParam, timeParam, listeners>>

TrailStart ==
    /\ kind = "trail"
    /\ TrailStartCall
    /\ Log("start", 0)
    /\ UNCHANGED <<kind, life, sinceStop>>
    /\ UNCHANGED cpuVars

TrailPlay ==
    /\ kind = "trail"
    /\ IF ~active
       THEN IF TrailCanResume(starting, stopping, maxTimeParam)
            THEN /\ listeners' = AddRenderListener(listeners)
                 /\ active' = TRUE
                 /\ UNCHANGED <<starting, stopping, endTime, decParam,
                                maxTimeParam, timeParam>>
            ELSE TrailStartCall
       ELSE UNCHANGED <<active, starting, stopping, endTime, decParam,
                        maxTimeParam, timeParam, listeners>>
    /\ Log("play", 0)
    /\ UNCHANGED <<kind, life, sinceStop>>
    /\ UNCHANGED cpuVars

\* variant: stop() that leaves the starting flag as it is
StartingAfterStopKept(s) == s

\* stop: this.starting = false
StartingAfterStop(s) == FALSE

TrailStop(hard) ==
    /\ kind = "trail"
    /\ IF active
       THEN /\ endTime' = IF hard THEN HardEnd
                          ELSE TrailSoftEnd(stopping, endTime, timeParam)
            /\ starting' = StartingAfterStop(starting)
            /\ stopping' = TRUE
            /\ sinceStop' = IF stopping THEN sinceStop ELSE 0
       ELSE UNCHANGED <<endTime, starting, stopping, sinceStop>>
    /\ Log(IF hard THEN "stopHard" ELSE "stop", 0)
    /\ UNCHANGED <<kind, life, active, timeParam, maxTimeParam, decParam, listeners>>
    /\ UNCHANGED cpuVars

----------------------------------------------------------------------------
(* The GPU systems as built by createCurveSystem with cfg.fast, from a     *)
(* configuration that lets setupShaders run (material, two boxes or more,  *)
(* a shape): the uniforms then start at time = 1.1, maxTime = 3.0 and      *)
(* dec = 1.0.  The base system has no endTime, starting and stopping       *)
(* fields; they keep their initial values there and are never read.        *)

NoCpu ==
    /\ sysActive = FALSE
    /\ pLife = 0
    /\ maxParticles = 0
    /\ maxRate = 0
    /\ pRate = 0
    /\ pTimer = 0
    /\ pTimerMax = 0
    /\ pIndex = 0
    /\ particles = <<>>
    /\ ret = 0
    /\ runLoops = 0
    /\ calls = 0
    /\ atStop = {}

Init ==
    /\ NoCfg
    /\ kind \in {"base", "trail"}
    /\ \E cfg \in CfgLives : life = LoadLife(cfg)
    /\ active = FALSE
    /\ timeParam = StopTime
    /\ maxTimeParam = StopMaxTime
    /\ decParam = InitDec
    /\ endTime = TrailInitEnd
    /\ starting = FALSE
    /\ stopping = FALSE
    /\ listeners = 0
    /\ sinceStop = 0
    /\ started = FALSE
    /\ lastOp = Call("new", 0, FALSE, FALSE, FALSE)
    /\ prevOp = Call("none", 0, FALSE, FALSE, FALSE)
    /\ NoCpu

Next ==
    \/ GpuStart
    \/ GpuStop
    \/ \E e \in ElapsedTimes(life) : GpuOnRender(e)
    \/ GpuPause
    \/ GpuPlay
    \/ \E l \in CfgLives : GpuSetLife(l)
    \/ \E e \in ElapsedTimes(life) : TrailOnRender(e)
    \/ TrailStart
    \/ TrailPlay
    \/ \E hard \in BOOLEAN : TrailStop(hard)

Spec == Init /\ [][Next]_vars

----------------------------------------------------------------------------
(* Particle *)

\* a loop counter that was never assigned (this.totalLoops, this.loops
\* before the first run) is the empty sequence, an assigned one is <<n>>
Undefined == <<>>

\* new Particle(trans, points, ...), points.length = lastFrame + 2
NewParticle(lastFrame) ==
    [frame |-> 1, lastFrame |-> lastFrame, loops |-> Undefined,
     ready |-> TRUE, active |-> FALSE, destroyed |-> FALSE,
     visible |-> TRUE, attached |-> TRUE]

\* Particle.prototype.run
ParticleRun(p, loops) ==
    [p EXCEPT !.loops = <<loops>>, !.ready = FALSE, !.active = TRUE]

\* Particle.prototype.reset; a destroyed particle has no transform and the
\* first statement throws, leaving the fields as they are
ParticleReset(p) ==
    IF p.destroyed THEN p
    ELSE [p EXCEPT !.visible = FALSE, !.loops = Undefined,
                   !.destroyed = FALSE, !.active = FALSE, !.ready = TRUE]

\* variant: the loop counter is never decremented
DecrementNone(loops) == loops

\* update: this.loops--
Decrement(loops) == IF loops = Undefined THEN Undefined ELSE <<loops[1] - 1>>

\* variant: the wrap test with > instead of >=
AtLastFrameStrict(frame, lastFrame) == frame > lastFrame

\* update: if (this.frame >= this.lastFrame)
AtLastFrame(frame, lastFrame) == frame >= lastFrame

\* Particle.prototype.update; on a destroyed particle the assignment to
\* this.transform throws before the frame is advanced
ParticleUpdate(p) ==
    IF ~p.active \/ p.destroyed THEN p
    ELSE LET q == [p EXCEPT !.frame = p.frame + 1, !.visible = TRUE]
         IN  IF AtLastFrame(q.frame, q.lastFrame)
             THEN LET r == [q EXCEPT !.frame = 1, !.loops = Decrement(q.loops)]
                  IN  IF r.loops = <<0>> THEN ParticleReset(r) ELSE r
             ELSE q

\* variant: destroy() that forgets to set the destroyed flag
ParticleDestroyNoFlag(p) ==
    IF p.destroyed THEN p
    ELSE [p EXCEPT !.attached = FALSE]

\* Particle.prototype.destroy
ParticleDestroy(p) ==
    IF p.destroyed THEN p
    ELSE [p EXCEPT !.attached = FALSE, !.destroyed = TRUE]

----------------------------------------------------------------------------
(* One Particle driven directly through its methods *)

NoGpu ==
    /\ kind = "cpu"
    /\ life = 0
    /\ active = FALSE
    /\ timeParam = 0
    /\ maxTimeParam = 0
    /\ decParam = 0
    /\ endTime = 0
    /\ starting = FALSE
    /\ stopping = FALSE
    /\ listeners = 0
    /\ sinceStop = 0
    /\ started = FALSE

NoSystem ==
    /\ sysActive = FALSE
    /\ pLife = 0
    /\ maxParticles = 1
    /\ maxRate = 0
    /\ pRate = 0
    /\ pTimer = 0
    /\ pTimerMax = 0
    /\ pIndex = 0
    /\ ret = 0
    /\ atStop = {}

LogParticle(op, arg) ==
    /\ lastOp' = Call(op, arg, particles[0].active, FALSE, FALSE)
    /\ prevOp' = lastOp
    /\ UNCHANGED cfgVars
    /\ UNCHANGED dbgVars

sysVars == <<sysActive, pLife, maxParticles, maxRate, pRate, pTimer,
             pTimerMax, pIndex, ret, atStop>>

RunAct(loops) ==
    /\ particles' = [particles EXCEPT ![0] = ParticleRun(@, loops)]
    /\ runLoops' = IF particles[0].ready /\ particles[0].frame = 1 /\ ~particles[0].destroyed
                   THEN loops ELSE 0
    /\ calls' = 0
    /\ LogParticle("run", loops)
    /\ UNCHANGED <<gpuVars, sysVars>>

\* the loop counter of a particle run with 0 loops decreases for ever; the
\* model stops calling update() once it is below -MaxLoops
UpdateAct ==
    /\ IF particles[0].loops = Undefined THEN TRUE
       ELSE particles[0].loops[1] > 0 - MaxLoops
    /\ particles' = [particles EXCEPT ![0] = ParticleUpdate(@)]
    /\ calls' = IF runLoops > 0 /\ particles[0].active THEN calls + 1 ELSE calls
    /\ LogParticle("update", 0)
    /\ UNCHANGED <<gpuVars, sysVars, runLoops>>

ResetAct ==
    /\ particles' = [particles EXCEPT ![0] = ParticleReset(@)]
    /\ runLoops' = 0
    /\ calls' = 0
    /\ LogParticle("reset", 0)
    /\ UNCHANGED <<gpuVars, sysVars>>

DestroyAct ==
    /\ particles' = [particles EXCEPT ![0] = ParticleDestroy(@)]
    /\ runLoops' = 0
    /\ calls' = 0
    /\ LogParticle("destroy", 0)
    /\ UNCHANGED <<gpuVars, sysVars>>

InitParticle ==
    /\ NoCfg
    /\ NoGpu
    /\ NoSystem
    /\ \E lf \in 1..MaxLastFrame : particles = [i \in {0} |-> NewParticle(lf)]
    /\ runLoops = 0
    /\ calls = 0
    /\ lastOp = Call("new", 0, FALSE, FALSE, FALSE)
    /\ prevOp = Call("none", 0, FALSE, FALSE, FALSE)

NextParticle ==
    \/ \E loops \in 0..MaxLoops : RunAct(loops)
    \/ UpdateAct
    \/ ResetAct
    \/ DestroyAct

SpecParticle == InitParticle /\ [][NextParticle]_vars

----------------------------------------------------------------------------
(* ParticleCurveSystem *)

RECURSIVE Factorial(_)
Factorial(n) == IF n <= 1 THEN 1 ELSE n * Factorial(n - 1)

\* event.elapsedTime, pTimer and pTimerMax are seconds in the source; here
\* one second is TimerUnit steps, which every rate 1 .. MaxParticles divides
TimerUnit == Factorial(MaxParticles)

CpuElapsed == {0, TimerUnit \div 4, TimerUnit}

\* the rates passed to setRate and the deltas passed to changeRate
Rates == {-1, 0, 1, 2, 10}
RateDeltas == {-10, -1, 1}

\* the pool sizes and run lengths a system is configured with
PoolConfigs ==
    {c \in (1..MaxParticles) \X (1..MaxLastFrame) :
        (c[1] - 1) * (c[2] - 1) <= MaxLoad}

\* Math.ceil(a / b) for positive b
Ceil(a, b) == (a + b - 1) \div b

\* variant: rounding up done as the whole quotient plus one
MaxRateOfFloorPlusOne(count, l) == count \div l + 1

\* constructor: this.maxRate = Math.ceil(this.maxParticles / this.pLife)
MaxRateOf(count, l) == Ceil(count, l)

\* 1.0 / rate, in timer steps
Interval(rate) == TimerUnit \div rate

\* hemi.utils.clamp(value, min, max)
Clamp(value, min, max) ==
    IF value < min THEN min ELSE IF value > max THEN max ELSE value

LogCpu(op, arg) ==
    /\ lastOp' = Call(op, arg, sysActive, FALSE, FALSE)
    /\ UNCHANGED prevOp
    /\ UNCHANGED cfgVars
    /\ UNCHANGED dbgVars

Pool == 0..(maxParticles - 1)

ActiveSlots == {i \in Pool : particles[i].active}

\* variant: opt_hard is ignored
ResetAllNever(ps, hard) == ps

\* stop(opt_hard): the loop that resets every particle
ResetAll(ps, hard) == IF hard THEN [i \in DOMAIN ps |-> ParticleReset(ps[i])] ELSE ps

CpuStart ==
    /\ kind = "cpu"
    /\ sysActive' = TRUE
    /\ atStop' = {}
    /\ LogCpu("start", 0)
    /\ UNCHANGED <<pLife, maxParticles, maxRate, pRate, pTimer, pTimerMax,
                   pIndex, particles, ret, runLoops, calls>>
    /\ UNCHANGED gpuVars

CpuStop(hard) ==
    /\ kind = "cpu"
    /\ sysActive' = FALSE
    /\ particles' = ResetAll(particles, hard)
    /\ atStop' = IF hard THEN {} ELSE ActiveSlots
    /\ LogCpu(IF hard THEN "stopHard" ELSE "stop", 0)
    /\ UNCHANGED <<pLife, maxParticles, maxRate, pRate, pTimer, pTimerMax,
                   pIndex, ret, runLoops, calls>>
    /\ UNCHANGED gpuVars

\* onRender: the slot at the cursor is launched if it is ready
Launch(ps, i) == IF ps[i].ready THEN [ps EXCEPT ![i] = ParticleRun(@, 1)] ELSE ps

\* onRender: this.pIndex++; if (this.pIndex >= this.maxParticles) this.pIndex = 0
NextIndex(i, n) == IF i + 1 >= n THEN 0 ELSE i + 1

\* onRender: the loop that calls update() on every particle
UpdateAll(ps) == [i \in DOMAIN ps |-> ParticleUpdate(ps[i])]

\* variant: the emission decision taken before the update loop
LaunchThenUpdate(ps, i) == UpdateAll(Launch(ps, i))

\* onRender when the timer fires: the update loop, then the launch
UpdateThenLaunch(ps, i) == Launch(UpdateAll(ps), i)

\* variant: the emission timer runs whether or not the system is active
CpuEmitsAlways(a) == TRUE

\* onRender: if (!this.active) return
CpuEmits(a) == a

CpuOnRender(e) ==
    /\ kind = "cpu"
    /\ LET updated == UpdateAll(particles)
           timer == pTimer + e
       IN  IF ~CpuEmits(sysActive)
           THEN /\ particles' = updated
                /\ UNCHANGED <<pTimer, pIndex>>
           ELSE IF timer >= pTimerMax
                THEN /\ pTimer' = 0
                     /\ particles' = UpdateThenLaunch(particles, pIndex)
                     /\ pIndex' = NextIndex(pIndex, maxParticles)
                ELSE /\ pTimer' = timer
                     /\ particles' = updated
                     /\ UNCHANGED pIndex
    /\ LogCpu("tick", e)
    /\ UNCHANGED <<sysActive, pLife, maxParticles, maxRate, pRate, pTimerMax,
                   ret, runLoops, calls, atStop>>
    /\ UNCHANGED gpuVars

\* variant: a positive rate never starts the system
AutoStartsNever(rate, newRate) == FALSE

\* setRate: if (this.pRate === 0 && newRate > 0) this.start()
AutoStarts(rate, newRate) == rate = 0 /\ newRate > 0

\* variant: the rate is stored as passed, only the interval uses the clamp
SetRateBodyUnclamped(rate) ==
    LET newRate == Clamp(rate, 0, maxRate)
    IN  /\ IF newRate = 0
           THEN /\ pTimerMax' = 0
                /\ sysActive' = FALSE
           ELSE /\ sysActive' = IF AutoStarts(pRate, newRate) THEN TRUE ELSE sysActive
                /\ pTimerMax' = Interval(newRate)
        /\ pRate' = rate
        /\ ret' = rate

\* the body of ParticleCurveSystem.prototype.setRate
SetRateBody(rate) ==
    LET newRate == Clamp(rate, 0, maxRate)
    IN  /\ IF newRate = 0
           THEN /\ pTimerMax' = 0
                /\ sysActive' = FALSE
           ELSE /\ sysActive' = IF AutoStarts(pRate, newRate) THEN TRUE ELSE sysActive
                /\ pTimerMax' = Interval(newRate)
        /\ pRate' = newRate
        /\ ret' = newRate

\* what the stop() or start() made by setRate does to the history
SetRateMark(rate) ==
    atStop' = IF Clamp(rate, 0, maxRate) = 0 THEN ActiveSlots
              ELSE IF pRate = 0 THEN {}
              ELSE atStop

CpuSetRate(rate) ==
    /\ kind = "cpu"
    /\ SetRateBody(rate)
    /\ SetRateMark(rate)
    /\ LogCpu("setRate", rate)
    /\ UNCHANGED <<pLife, maxParticles, maxRate, pTimer, pIndex, particles,
                   runLoops, calls>>
    /\ UNCHANGED gpuVars

CpuChangeRate(delta) ==
    /\ kind = "cpu"
    /\ SetRateBody(pRate + delta)
    /\ SetRateMark(pRate + delta)
    /\ LogCpu("changeRate", delta)
    /\ UNCHANGED <<pLife, maxParticles, maxRate, pTimer, pIndex, particles,
                   runLoops, calls>>
    /\ UNCHANGED gpuVars

\* new ParticleCurveSystem(client, config): config.life (0 when absent),
\* config.particleCount and config.frames = lastFrame + 2
InitCpu ==
    /\ NoCfg
    /\ NoGpu
    /\ \E cfg \in CfgLives, c \in PoolConfigs :
        /\ pLife = LoadLife(cfg)
        /\ maxParticles = c[1]
        /\ maxRate = MaxRateOf(c[1], LoadLife(cfg))
        /\ pRate = MaxRateOf(c[1], LoadLife(cfg))
        /\ pTimerMax = Interval(MaxRateOf(c[1], LoadLife(cfg)))
        /\ particles = [i \in 0..(c[1] - 1) |-> NewParticle(c[2])]
    /\ sysActive = FALSE
    /\ pTimer = 0
    /\ pIndex = 0
    /\ ret = 0
    /\ runLoops = 0
    /\ calls = 0
    /\ atStop = {}
    /\ lastOp = Call("new", 0, FALSE, FALSE, FALSE)
    /\ prevOp = Call("none", 0, FALSE, FALSE, FALSE)

NextCpu ==
    \/ CpuStart
    \/ \E hard \in BOOLEAN : CpuStop(hard)
    \/ \E e \in CpuElapsed : CpuOnRender(e)
    \/ \E rate \in Rates : CpuSetRate(rate)
    \/ \E delta \in RateDeltas : CpuChangeRate(delta)

SpecCpu == InitCpu /\ [][NextCpu]_vars

CpuTick == \E e \in CpuElapsed : CpuOnRender(e)

\* the constructor puts the system on the render-listener list and nothing
\* takes it off: the render loop calls its onRender frame after frame
LiveSpecCpu == InitCpu /\ [][NextCpu]_vars /\ WF_vars(CpuTick)

\* ticks that carry a positive elapsed time
PosTick ==
    \E e \in ElapsedTimes(life) :
        /\ e > 0
        /\ (GpuOnRender(e) \/ TrailOnRender(e))

\* the render loop keeps calling a registered system, frame after frame
LiveSpec == Init /\ [][Next]_vars /\ WF_vars(PosTick)

----------------------------------------------------------------------------
(* Colour and scale ramps.  The code copies the value arrays whole and    *)
(* never looks inside them: the i-th value a setter is called with is      *)
(* Palette(i), and the values of one call all differ.  Keys arrive in      *)
(* ascending order, as the setters document, and without a random range.   *)

KeyTimes == {0, 3, 5}     \* key positions 0, 0.3 and 0.5
Palette(i) == i           \* the i-th colour or scale of a call
DefaultColor == 0         \* Particle.setColors: [0,0,0,1]
DefaultScale == 0         \* Particle.setScales: [1,1,1]
ShapeTypes == {"cube"}    \* hemi.curve.ShapeType.CUBE
GpuCounts == {1}          \* setParticleCount is called with one of these

\* key positions in ascending order
KeySeqs(n) == {k \in [1..n -> KeyTimes] : \A i \in 1..(n - 1) : k[i] < k[i + 1]}

\* the arrays of keys a ramp setter is called with
KeyArrays ==
    UNION {{[i \in 1..n |-> [key |-> k[i], value |-> Palette(i)]] :
                k \in KeySeqs(n)} : n \in 0..MaxKeys}

\* the arrays of values setColors and setScales are called with
ValueArrays == {[i \in 1..n |-> Palette(i)] : n \in 0..MaxKeys}

\* setColors, setScales: step = len === 1 ? 1 : 1 / (len - 1)
Step(len) == IF len = 1 THEN Unit ELSE Unit \div (len - 1)

\* setColors, setScales: the keys i * step pushed for the given values
EvenKeys(values) ==
    [i \in 1..Len(values) |->
        [key |-> (i - 1) * Step(Len(values)), value |-> values[i]]]

\* variant: a single key is stored as it is
ColorRampKeepSingle(keys) ==
    IF Len(keys) > 1
    THEN [keys EXCEPT ![1].key = 0, ![Len(keys)].key = Unit]
    ELSE keys

\* setColorKeys: the ramp assigned to this.colors
ColorRamp(keys) ==
    IF Len(keys) = 1
    THEN <<[key |-> 0, value |-> keys[1].value],
           [key |-> Unit, value |-> keys[1].value]>>
    ELSE IF Len(keys) > 1
         THEN [keys EXCEPT ![1].key = 0, ![Len(keys)].key = Unit]
         ELSE <<>>

\* setScaleKeys: the ramp assigned to this.scales
ScaleRamp(keys) ==
    IF Len(keys) = 1
    THEN <<[key |-> 0, value |-> keys[1].value],
           [key |-> Unit, value |-> keys[1].value]>>
    ELSE IF Len(keys) > 1
         THEN [keys EXCEPT ![1].key = 0, ![Len(keys)].key = Unit]
         ELSE <<>>

\* Particle.setColors(null): the two black keys
DefaultColorKeys ==
    <<[key |-> 0, value |-> DefaultColor], [key |-> Unit, value |-> DefaultColor]>>

\* Particle.setScales(null): the two unit keys
DefaultScaleKeys ==
    <<[key |-> 0, value |-> DefaultScale], [key |-> Unit, value |-> DefaultScale]>>

\* setColors, setScales of Particle: keySet[ndx].key > time for the time
\* (i - 1) / (lastFrame - 2) of frame i.  With lastFrame = 2 the time is NaN
\* or Infinity and no key is greater; with lastFrame = 1 it is -0.
KeyAfter(key, i, lastFrame) ==
    IF lastFrame = 2 THEN FALSE
    ELSE IF lastFrame = 1 THEN key > 0
    ELSE key * (lastFrame - 2) > (i - 1) * Unit

\* lerpValue: the 0-based index the backward scan stops at, started at
\* keySet.length - 2; below 0 there is no keySet[ndx] and reading its key
\* raises a TypeError
RECURSIVE LerpIndex(_, _, _, _)
LerpIndex(keySet, ndx, i, lastFrame) ==
    IF ndx < 0 THEN ndx
    ELSE IF KeyAfter(keySet[ndx + 1].key, i, lastFrame)
         THEN LerpIndex(keySet, ndx - 1, i, lastFrame)
         ELSE ndx

\* setColors, setScales of Particle: some frame's lerpValue raises
LerpThrows(keySet, lastFrame) ==
    \E i \in 1..lastFrame : LerpIndex(keySet, Len(keySet) - 2, i, lastFrame) < 0

----------------------------------------------------------------------------
(* Shader composition: GpuParticleCurveSystem.prototype.setupShaders *)

\* hemi.utils.getShaders: the sources of the shaders attached to the
\* material's program
GetShaders(m) == [vertSrc |-> m.vert, fragSrc |-> m.frag]

\* variant: setupShaders that only asks for a material and a transform
CanSetupAnyBoxes(m, src, n, t) == m.exists /\ src.exists /\ t

\* if (!this.material || !this.materialSrc || this.boxes.length < 2 ||
\*     !this.transform) return
CanSetup(m, src, n, t) == m.exists /\ src.exists /\ n >= 2 /\ t

\* variant: the vertex stage is rewritten whatever the source contains
VertLacksMarkerAlways(vertSrc) == TRUE

\* vertSrc.search('ptcInterp') < 0
VertLacksMarker(vertSrc) == vertSrc.woven = 0

\* fragSrc.search('ptcColor') < 0
FragLacksMarker(fragSrc) == fragSrc.woven = 0

\* variant: a ramp of one key or more is woven in
AddRampAny(n) == n > 0

\* addColors = numColors > 1, addScale = numScales > 1
AddRamp(n) == n > 1

\* the vertex stage built from vertSrc and the header, support and body
\* chunks picked for the configuration
WeaveVert(vertSrc, numBoxes, numColors, numScales, a) ==
    [woven |-> vertSrc.woven + 1,
     boxes |-> numBoxes,
     colors |-> IF AddRamp(numColors) THEN numColors ELSE 0,
     scales |-> IF AddRamp(numScales) THEN numScales ELSE 0,
     aim |-> a]

\* the fragment stage built from fragSrc
WeaveFrag(fragSrc, numColors) ==
    [woven |-> fragSrc.woven + 1, colors |-> AddRamp(numColors)]

BaseUniforms ==
    {"sysTime", "ptcMaxTime", "ptcDec", "numPtcs", "tension", "minXYZ",
     "maxXYZ", "viewIT"}
ColorUniforms == {"ptcColors", "ptcColorKeys"}
ScaleUniforms == {"ptcScales", "ptcScaleKeys"}

\* the uniforms setupShaders puts on the material, after deleting the ones
\* an earlier call put there
CurveUniforms(numColors, numScales) ==
    BaseUniforms
        \cup (IF AddRamp(numColors) THEN ColorUniforms ELSE {})
        \cup (IF AddRamp(numScales) THEN ScaleUniforms ELSE {})

\* the stages a call rewrites
Rewritten(src) ==
    (IF VertLacksMarker(src.vert) THEN {"vert"} ELSE {})
        \cup (IF FragLacksMarker(src.frag) THEN {"frag"} ELSE {})

\* the material as setupShaders leaves it when it runs
ComposeMaterial(m, src, numBoxes, numColors, numScales, a) ==
    [m EXCEPT
        !.isCurveGen = TRUE,
        !.vert = IF VertLacksMarker(src.vert)
                 THEN WeaveVert(src.vert, numBoxes, numColors, numScales, a)
                 ELSE @,
        !.frag = IF FragLacksMarker(src.frag)
                 THEN WeaveFrag(src.frag, numColors)
                 ELSE @,
        !.uniforms = CurveUniforms(numColors, numScales)]

\* variant: the uniforms are created anew at every composition
CarriedNever(m, name, value, default) == default

\* setupShaders: a uniform the material carries hands its value on to the
\* one that replaces it (dec = param.value ...)
Carried(m, name, value, default) ==
    IF name \in m.uniforms THEN value ELSE default

\* setupShaders, called with the fields as the caller has just set them.  A
\* uniform the material already carries keeps its value; dec, maxTime and
\* time are 1.0, 3.0 and 1.1 otherwise.
SetupShaders(m, src, numBoxes, cs, ss, a, t) ==
    IF CanSetup(m, src, numBoxes, t)
    THEN /\ material' = ComposeMaterial(m, src, numBoxes, Len(cs), Len(ss), a)
         /\ wove' = Rewritten(src)
         /\ timeParam' = Carried(m, "sysTime", timeParam, StopTime)
         /\ maxTimeParam' = Carried(m, "ptcMaxTime", maxTimeParam, StopMaxTime)
         /\ decParam' = Carried(m, "ptcDec", decParam, InitDec)
    ELSE /\ material' = m
         /\ wove' = {}
         /\ UNCHANGED <<timeParam, maxTimeParam, decParam>>

\* setupBounds: material.uniforms.minXYZ and maxXYZ can be written
BoundsReady(m) == m.exists /\ {"minXYZ", "maxXYZ"} \subseteq m.uniforms

\* the configuration setters are logged as one kind of call, with whether
\* the material's program was curve-generated when the call was made
LogCfg ==
    /\ lastOp' = Call("configure", IF material.isCurveGen THEN 1 ELSE 0,
                      active, FALSE, FALSE)
    /\ UNCHANGED <<prevOp, curve, point>>
    /\ UNCHANGED dbgVars
    /\ UNCHANGED <<kind, life, active, endTime, starting, stopping, listeners,
                   sinceStop, started>>
    /\ UNCHANGED cpuVars

\* GpuParticleCurveSystem.prototype.setAim
GpuSetAim(a) ==
    /\ kind \in {"base", "trail"}
    /\ IF aim # a
       THEN /\ aim' = a
            /\ SetupShaders(material, materialSrc, boxes, colors, scales, a,
                            transform)
       ELSE /\ wove' = {}
            /\ UNCHANGED <<aim, material, timeParam, maxTimeParam, decParam>>
    /\ threw' = FALSE
    /\ UNCHANGED <<boxes, colors, scales, materialSrc, transform, ptcShape,
                   numPtcs, colorKeys, sKeys>>
    /\ LogCfg

\* GpuParticleCurveSystem.prototype.setBoxes, called with n boxes
GpuSetBoxes(n) ==
    /\ kind \in {"base", "trail"}
    /\ boxes' = n
    /\ IF n = boxes
       THEN /\ threw' = ~BoundsReady(material)
            /\ wove' = {}
            /\ UNCHANGED <<material, timeParam, maxTimeParam, decParam>>
       ELSE /\ threw' = FALSE
            /\ SetupShaders(material, materialSrc, n, colors, scales, aim,
                            transform)
    /\ UNCHANGED <<aim, colors, scales, materialSrc, transform, ptcShape,
                   numPtcs, colorKeys, sKeys>>
    /\ LogCfg

\* GpuParticleCurveSystem.prototype.setColorKeys
GpuSetColorKeys(keys) ==
    /\ kind \in {"base", "trail"}
    /\ colors' = ColorRamp(keys)
    /\ SetupShaders(material, materialSrc, boxes, ColorRamp(keys), scales, aim,
                    transform)
    /\ threw' = FALSE
    /\ UNCHANGED <<aim, boxes, scales, materialSrc, transform, ptcShape,
                   numPtcs, colorKeys, sKeys>>
    /\ LogCfg

\* GpuParticleCurveSystem.prototype.setColors
GpuSetColors(values) ==
    /\ kind \in {"base", "trail"}
    /\ colors' = ColorRamp(EvenKeys(values))
    /\ SetupShaders(material, materialSrc, boxes, ColorRamp(EvenKeys(values)),
                    scales, aim, transform)
    /\ threw' = FALSE
    /\ UNCHANGED <<aim, boxes, scales, materialSrc, transform, ptcShape,
                   numPtcs, colorKeys, sKeys>>
    /\ LogCfg

\* GpuParticleCurveSystem.prototype.setScaleKeys
GpuSetScaleKeys(keys) ==
    /\ kind \in {"base", "trail"}
    /\ scales' = ScaleRamp(keys)
    /\ SetupShaders(material, materialSrc, boxes, colors, ScaleRamp(keys), aim,
                    transform)
    /\ threw' = FALSE
    /\ UNCHANGED <<aim, boxes, colors, materialSrc, transform, ptcShape,
                   numPtcs, colorKeys, sKeys>>
    /\ LogCfg

\* GpuParticleCurveSystem.prototype.setScales
GpuSetScales(values) ==
    /\ kind \in {"base", "trail"}
    /\ scales' = ScaleRamp(EvenKeys(values))
    /\ SetupShaders(material, materialSrc, boxes, colors,
                    ScaleRamp(EvenKeys(values)), aim, transform)
    /\ threw' = FALSE
    /\ UNCHANGED <<aim, boxes, colors, materialSrc, transform, ptcShape,
                   numPtcs, colorKeys, sKeys>>
    /\ LogCfg

\* the materials setMaterial is called with: a new one, or the one the
\* system already uses
MaterialArgs == {NewMaterial} \cup (IF material.exists THEN {material} ELSE {})

\* GpuParticleCurveSystem.prototype.setMaterial; initMaterial gives a
\* material without a program one with the material's own shaders attached
GpuSetMaterial(m) ==
    /\ kind \in {"base", "trail"}
    /\ LET mat == [m EXCEPT !.program = TRUE]
           shads == GetShaders(mat)
           src == [exists |-> TRUE, vert |-> shads.vertSrc, frag |-> shads.fragSrc]
       IN  /\ materialSrc' = src
           /\ SetupShaders(mat, src, boxes, colors, scales, aim, transform)
    /\ threw' = FALSE
    /\ UNCHANGED <<aim, boxes, colors, scales, transform, ptcShape, numPtcs,
                   colorKeys, sKeys>>
    /\ LogCfg

\* the body of setParticleShape for a system that holds n particles
SetParticleShapeBody(type, n) ==
    /\ ptcShape' = type
    /\ numPtcs' = IF n = 0 THEN 1 ELSE n
    /\ transform' = TRUE
    /\ SetupShaders(IF material.exists THEN material ELSE NewMaterial,
                    materialSrc, boxes, colors, scales, aim, TRUE)

\* GpuParticleCurveSystem.prototype.setParticleShape
GpuSetParticleShape(type) ==
    /\ kind \in {"base", "trail"}
    /\ SetParticleShapeBody(type, numPtcs)
    /\ threw' = FALSE
    /\ UNCHANGED <<aim, boxes, colors, scales, materialSrc, colorKeys, sKeys>>
    /\ LogCfg

\* GpuParticleCurveSystem.prototype.setParticleCount
GpuSetParticleCount(n) ==
    /\ kind \in {"base", "trail"}
    /\ IF ptcShape # NoShape
       THEN SetParticleShapeBody(ptcShape, n)
       ELSE /\ numPtcs' = n
            /\ wove' = {}
            /\ UNCHANGED <<ptcShape, transform, material, timeParam,
                           maxTimeParam, decParam>>
    /\ threw' = FALSE
    /\ UNCHANGED <<aim, boxes, colors, scales, materialSrc, colorKeys, sKeys>>
    /\ LogCfg

\* what a Particle ramp setter leaves alone
particleRampFrame ==
    /\ UNCHANGED gpuVars
    /\ UNCHANGED cpuVars
    /\ UNCHANGED <<aim, boxes, colors, scales, material, materialSrc, transform,
                   ptcShape, numPtcs, wove, curve, point>>
    /\ UNCHANGED prevOp
    /\ UNCHANGED dbgVars

\* Particle.prototype.setColors(colorKeys) with an array
SetColorsAct(keys) ==
    /\ kind = "cpu"
    /\ colorKeys' = keys
    /\ threw' = LerpThrows(keys, particles[0].lastFrame)
    /\ lastOp' = Call("setColors", 1, particles[0].active, FALSE, FALSE)
    /\ UNCHANGED sKeys
    /\ particleRampFrame

\* Particle.prototype.setColors() without keys
SetColorsDefaultAct ==
    /\ kind = "cpu"
    /\ colorKeys' = DefaultColorKeys
    /\ threw' = LerpThrows(DefaultColorKeys, particles[0].lastFrame)
    /\ lastOp' = Call("setColors", 0, particles[0].active, FALSE, FALSE)
    /\ UNCHANGED sKeys
    /\ particleRampFrame

\* Particle.prototype.setScales(scaleKeys) with an array
SetScalesAct(keys) ==
    /\ kind = "cpu"
    /\ sKeys' = keys
    /\ threw' = LerpThrows(keys, particles[0].lastFrame)
    /\ lastOp' = Call("setScales", 1, particles[0].active, FALSE, FALSE)
    /\ UNCHANGED colorKeys
    /\ particleRampFrame

\* Particle.prototype.setScales() without keys
SetScalesDefaultAct ==
    /\ kind = "cpu"
    /\ sKeys' = DefaultScaleKeys
    /\ threw' = LerpThrows(DefaultScaleKeys, particles[0].lastFrame)
    /\ lastOp' = Call("setScales", 0, particles[0].active, FALSE, FALSE)
    /\ UNCHANGED colorKeys
    /\ particleRampFrame

\* new GpuParticleCurveSystem(client) without a configuration, or a
\* Particle built without keys
InitConfig ==
    /\ NoDbg
    /\ curve = NoCurve
    /\ point = NoPoint
    /\ lastOp = Call("new", 0, FALSE, FALSE, FALSE)
    /\ prevOp = Call("none", 0, FALSE, FALSE, FALSE)
    /\ aim = FALSE
    /\ boxes = 0
    /\ colors = <<>>
    /\ scales = <<>>
    /\ material = NoMaterial
    /\ materialSrc = NoMaterialSrc
    /\ transform = FALSE
    /\ ptcShape = NoShape
    /\ numPtcs = 0
    /\ threw = FALSE
    /\ wove = {}
    /\ \/ /\ kind = "base"
          /\ life = 0
          /\ active = FALSE
          /\ timeParam = 0
          /\ maxTimeParam = 0
          /\ decParam = 0
          /\ endTime = 0
          /\ starting = FALSE
          /\ stopping = FALSE
          /\ listeners = 0
          /\ sinceStop = 0
          /\ started = FALSE
          /\ NoCpu
          /\ colorKeys = <<>>
          /\ sKeys = <<>>
       \/ /\ NoGpu
          /\ NoSystem
          /\ \E lf \in 1..MaxLastFrame :
                particles = [i \in {0} |-> NewParticle(lf)]
          /\ runLoops = 0
          /\ calls = 0
          /\ colorKeys = DefaultColorKeys
          /\ sKeys = DefaultScaleKeys

NextConfig ==
    \/ \E a \in BOOLEAN : GpuSetAim(a)
    \/ \E n \in 0..MaxBoxes : GpuSetBoxes(n)
    \/ \E keys \in KeyArrays : GpuSetColorKeys(keys)
    \/ \E values \in ValueArrays : GpuSetColors(values)
    \/ \E keys \in KeyArrays : GpuSetScaleKeys(keys)
    \/ \E values \in ValueArrays : GpuSetScales(values)
    \/ \E m \in MaterialArgs : GpuSetMaterial(m)
    \/ \E type \in ShapeTypes : GpuSetParticleShape(type)
    \/ \E n \in GpuCounts : GpuSetParticleCount(n)
    \/ \E keys \in KeyArrays : SetColorsAct(keys)
    \/ SetColorsDefaultAct
    \/ \E keys \in KeyArrays : SetScalesAct(keys)
    \/ SetScalesDefaultAct

SpecConfig == InitConfig /\ [][NextConfig]_vars

----------------------------------------------------------------------------
(* Playback and configuration together: a GPU system or trail built from a *)
(* configuration of two boxes, whose shader the constructor has composed,  *)
(* is played and reconfigured in any order.                                *)

\* the elapsed time of the ticks: half a lifetime
PlaybackTimes == {(Unit \div 2) * life}

\* the ramps the setters are called with during playback: none, or two keys
PlaybackKeys == {keys \in KeyArrays : Len(keys) \in {0, 2}}

\* new GpuParticleCurveSystem(client, {boxes: [b1, b2]}), or the same for
\* GpuParticleTrail: loadConfig ends with setMaterial(newMaterial()) and
\* setParticleShape(CUBE), which composes the shader
InitPlayback ==
    /\ NoCpu
    /\ NoDbg
    /\ curve = NoCurve
    /\ point = NoPoint
    /\ kind \in {"base", "trail"}
    /\ life = LoadLife(0)
    /\ active = FALSE
    /\ timeParam = StopTime
    /\ maxTimeParam = StopMaxTime
    /\ decParam = InitDec
    /\ endTime = TrailInitEnd
    /\ starting = FALSE
    /\ stopping = FALSE
    /\ listeners = 0
    /\ sinceStop = 0
    /\ started = FALSE
    /\ aim = FALSE
    /\ boxes = 2
    /\ colors = <<>>
    /\ scales = <<>>
    /\ LET mat == [NewMaterial EXCEPT !.program = TRUE]
           shads == GetShaders(mat)
           src == [exists |-> TRUE, vert |-> shads.vertSrc,
                   frag |-> shads.fragSrc]
       IN  /\ materialSrc = src
           /\ material = ComposeMaterial(mat, src, 2, 0, 0, FALSE)
           /\ wove = Rewritten(src)
    /\ transform = TRUE
    /\ ptcShape = "cube"
    /\ numPtcs = 1
    /\ colorKeys = <<>>
    /\ sKeys = <<>>
    /\ threw = FALSE
    /\ lastOp = Call("new", 0, FALSE, FALSE, FALSE)
    /\ prevOp = Call("none", 0, FALSE, FALSE, FALSE)

\* the setters that end in setupShaders, setMaterial apart
Recomposes ==
    \/ \E a \in BOOLEAN : GpuSetAim(a)
    \/ \E n \in {2, MaxBoxes} : GpuSetBoxes(n)
    \/ \E keys \in PlaybackKeys : GpuSetColorKeys(keys)
    \/ \E keys \in PlaybackKeys : GpuSetScaleKeys(keys)
    \/ \E type \in ShapeTypes : GpuSetParticleShape(type)
    \/ \E n \in GpuCounts : GpuSetParticleCount(n)

NextPlayback ==
    \/ GpuStart
    \/ GpuStop
    \/ \E e \in PlaybackTimes : GpuOnRender(e)
    \/ GpuPause
    \/ GpuPlay
    \/ \E e \in PlaybackTimes : TrailOnRender(e)
    \/ TrailStart
    \/ TrailPlay
    \/ \E hard \in BOOLEAN : TrailStop(hard)
    \/ Recomposes

SpecPlayback == InitPlayback /\ [][NextPlayback]_vars

----------------------------------------------------------------------------
(* Curve.  The three axes are interpolated by the same expressions; the    *)
(* waypoints here lie on the x axis, so that the distance between two of   *)
(* them is the absolute difference of their coordinates.  Times are the    *)
(* fractions k / TimeSteps and a position is the fraction num / den; nan   *)
(* tells that the division that produced it had a zero divisor.  Tangents  *)
(* are kept doubled, so that the halves of setTangents stay whole.         *)

Coords == {0, 1, 3}
CurveTypes == {"Linear", "Bezier", "CubicHermite", "LinearNorm", "Cardinal"}
Times == 0..TimeSteps

Abs(a) == IF a < 0 THEN 0 - a ELSE a

RECURSIVE Pow(_, _)
\* Math.pow, with Math.pow(0, 0) = 1
Pow(b, e) == IF e = 0 THEN 1 ELSE b * Pow(b, e - 1)

RECURSIVE Choose(_, _)
\* hemi.utils.choose: the binomial coefficient
Choose(n, m) ==
    IF m = 0 \/ m = n THEN 1 ELSE Choose(n - 1, m - 1) + Choose(n - 1, m)

RECURSIVE Sum(_, _)
\* f[1] + ... + f[n]
Sum(f, n) == IF n = 0 THEN 0 ELSE f[n] + Sum(f, n - 1)

\* setTangents for a Cardinal curve of tension 0, doubled:
\* (1 - tension) * (xpts[i+2] - xpts[i]) on the list with its first and its
\* last point repeated
CardinalTans(xpts) ==
    LET ext == <<xpts[1]>> \o xpts \o <<xpts[Len(xpts)]>>
    IN  [i \in 1..Len(xpts) |-> ext[i + 2] - ext[i]]

\* new Curve(points, type, cfg): cfg.tangents gives every waypoint the
\* tangent tan, cfg.weights gives the first waypoint the weight w
NewCurve(type, xpts, tan, w) ==
    [type |-> type,
     count |-> Len(xpts),
     xpts |-> xpts,
     xtans |-> IF type = "Cardinal" THEN CardinalTans(xpts)
               ELSE [i \in 1..Len(xpts) |-> 2 * tan],
     weights |-> [i \in 1..Len(xpts) |-> IF i = 1 THEN w ELSE 1]]

\* variant: the segment index without the clamp at the last segment
SegmentUnclamped(c, k) == (k * (c.count - 1)) \div TimeSteps

\* linear, cubicHermite: ndx = Math.floor(t*n); if (ndx >= n) ndx = n-1
Segment(c, k) ==
    LET n == c.count - 1
        ndx == (k * n) \div TimeSteps
    IN  IF ndx >= n THEN n - 1 ELSE ndx

\* linear, cubicHermite: tt = (t-ndx/n)/((ndx+1)/n-ndx/n), which is
\* t*n - ndx; the numerator over TimeSteps
LocalTime(c, k, ndx) == k * (c.count - 1) - ndx * TimeSteps

\* Curve.prototype.linear
Linear(c, k) ==
    LET ndx == Segment(c, k)
        tt == LocalTime(c, k, ndx)
    IN  [t |-> k, ndx |-> ndx, nan |-> FALSE, den |-> TimeSteps,
         num |-> (TimeSteps - tt) * c.xpts[ndx + 1] + tt * c.xpts[ndx + 2]]

\* Curve.prototype.bezier: the factors over TimeSteps^(n-1)
Bezier(c, k) ==
    LET n == c.count
        fac == [i \in 1..n |->
                   c.weights[i] * Choose(n - 1, i - 1) * Pow(k, i - 1)
                       * Pow(TimeSteps - k, n - i)]
        w == Sum(fac, n)
    IN  [t |-> k, ndx |-> 0, nan |-> w = 0, den |-> w,
         num |-> Sum([i \in 1..n |-> fac[i] * c.xpts[i]], n)]

\* hemi.utils.cubicHermite(t, p0, m0, p1, m1) for t = a / d and the doubled
\* tangents m0, m1: the Hermite blend, over 2 * d^3
CubicHermiteBlend(a, d, p0, m0, p1, m1) ==
    2 * (2 * a * a * a - 3 * a * a * d + d * d * d) * p0
        + (a * a * a - 2 * a * a * d + a * d * d) * m0
        + 2 * (3 * a * a * d - 2 * a * a * a) * p1
        + (a * a * a - a * a * d) * m1

\* Curve.prototype.cubicHermite
CubicHermite(c, k) ==
    LET ndx == Segment(c, k)
        tt == LocalTime(c, k, ndx)
    IN  [t |-> k, ndx |-> ndx, nan |-> FALSE,
         den |-> 2 * TimeSteps * TimeSteps * TimeSteps,
         num |-> CubicHermiteBlend(tt, TimeSteps, c.xpts[ndx + 1],
                                   c.xtans[ndx + 1], c.xpts[ndx + 2],
                                   c.xtans[ndx + 2])]

RECURSIVE Dpts(_, _)
\* linearNorm: dpts[i], the length of the path up to waypoint i (0-based)
Dpts(c, i) ==
    IF i = 0 THEN 0 ELSE Dpts(c, i - 1) + Abs(c.xpts[i + 1] - c.xpts[i])

\* variant: the search takes the waypoints at or before the target
NormSegmentAtOrBefore(c, k) ==
    LET d == Dpts(c, c.count - 1)
        hits == {i \in 0..(c.count - 1) : Dpts(c, i) * TimeSteps <= k * d}
    IN  IF hits = {} THEN 0 ELSE CHOOSE i \in hits : \A j \in hits : j <= i

\* linearNorm: the last i with dpts[i] < tt, for tt = t * d; 0 without one
NormSegment(c, k) ==
    LET d == Dpts(c, c.count - 1)
        hits == {i \in 0..(c.count - 1) : Dpts(c, i) * TimeSteps < k * d}
    IN  IF hits = {} THEN 0 ELSE CHOOSE i \in hits : \A j \in hits : j <= i

\* Curve.prototype.linearNorm; lt = (tt - dpts[ndx])/(dpts[ndx+1] -
\* dpts[ndx]) is not a number when the segment has no length, and neither
\* is dpts[ndx+1] past the last waypoint
LinearNorm(c, k) ==
    LET d == Dpts(c, c.count - 1)
        ndx == NormSegment(c, k)
    IN  IF ndx + 1 > c.count - 1 \/ Dpts(c, ndx + 1) = Dpts(c, ndx)
        THEN [t |-> k, ndx |-> ndx, nan |-> TRUE, den |-> 1, num |-> 0]
        ELSE LET seg == Dpts(c, ndx + 1) - Dpts(c, ndx)
                 a == k * d - Dpts(c, ndx) * TimeSteps
             IN  [t |-> k, ndx |-> ndx, nan |-> FALSE, den |-> TimeSteps * seg,
                  num |-> (TimeSteps * seg - a) * c.xpts[ndx + 1]
                              + a * c.xpts[ndx + 2]]

\* setType: the function interpolate stands for
Interpolate(c, k) ==
    CASE c.type = "Linear" -> Linear(c, k)
      [] c.type = "Bezier" -> Bezier(c, k)
      [] c.type = "LinearNorm" -> LinearNorm(c, k)
      [] OTHER -> CubicHermite(c, k)

\* curve.interpolate(k / TimeSteps)
InterpolateAct(k) ==
    /\ curve.count > 0
    /\ point' = Interpolate(curve, k)
    /\ lastOp' = Call("interpolate", k, FALSE, FALSE, FALSE)
    /\ UNCHANGED <<curve, prevOp>>
    /\ UNCHANGED <<gpuVars, cpuVars, dbgVars>>
    /\ UNCHANGED <<aim, boxes, colors, scales, material, materialSrc, transform,
                   ptcShape, numPtcs, colorKeys, sKeys, threw, wove>>

\* the curves: two waypoints or more, tangents given for CubicHermite only
\* (0 or 1 at every waypoint) and a first weight for Bezier only (1 or 2)
Curves ==
    UNION {{NewCurve(type, xpts,
                     IF type = "CubicHermite" THEN o ELSE 0,
                     IF type = "Bezier" THEN o + 1 ELSE 1) :
                type \in CurveTypes, xpts \in [1..n -> Coords], o \in {0, 1}} :
           n \in 2..MaxPoints}

InitCurve ==
    /\ NoGpu
    /\ NoCpu
    /\ NoGpuCfg
    /\ curve \in Curves
    /\ point = NoPoint
    /\ lastOp = Call("new", 0, FALSE, FALSE, FALSE)
    /\ prevOp = Call("none", 0, FALSE, FALSE, FALSE)

NextCurve == \E k \in Times : InterpolateAct(k)

SpecCurve == InitCurve /\ [][NextCurve]_vars

----------------------------------------------------------------------------
(* The debug overlay: showBoxes and hideBoxes.  Every system has its own   *)
(* transform, whose clientId is the system's number; a debug box mesh is   *)
(* the number of its creation.                                             *)

Systems == 1..MaxSystems

\* the state of every variable but the overlay's
NoOverlayUse ==
    /\ NoGpu
    /\ NoCpu
    /\ aim = FALSE
    /\ boxes = 0
    /\ colors = <<>>
    /\ scales = <<>>
    /\ material = NoMaterial
    /\ materialSrc = NoMaterialSrc
    /\ transform = FALSE
    /\ ptcShape = NoShape
    /\ numPtcs = 0
    /\ colorKeys = <<>>
    /\ sKeys = <<>>
    /\ threw = FALSE
    /\ wove = {}
    /\ curve = NoCurve
    /\ point = NoPoint

\* THREE.Object3D.add: the mesh becomes a child of the node
NodeAdd(kids, mesh) == kids \cup {mesh}

\* THREE.Object3D.remove: a child of the node is detached, anything else is
\* left where it is
NodeRemove(kids, mesh) == kids \ {mesh}

\* node.add or node.remove for every mesh of a list
RECURSIVE AddAll(_, _)
AddAll(kids, list) ==
    IF list = <<>> THEN kids
    ELSE AddAll(NodeAdd(kids, Head(list)), Tail(list))

RECURSIVE RemoveAll(_, _)
RemoveAll(kids, list) ==
    IF list = <<>> THEN kids
    ELSE RemoveAll(NodeRemove(kids, Head(list)), Tail(list))

\* dbgBoxTransforms[id] || []
Entry(reg, id) == IF id \in DOMAIN reg THEN reg[id] ELSE <<>>

\* variant: hideBoxes takes the entry of its own transform only
HiddenIdsOwn(reg, s) == DOMAIN reg \cap {s}

\* hideBoxes: for (var id in dbgBoxTransforms)
HiddenIds(reg, s) == DOMAIN reg

\* the meshes of the entries ids, one entry after the other
RECURSIVE Listed(_, _)
Listed(reg, ids) ==
    IF ids = {} THEN <<>>
    ELSE LET id == CHOOSE i \in ids : \A j \in ids : i <= j
         IN reg[id] \o Listed(reg, ids \ {id})

LogBoxes(op, s) ==
    /\ lastOp' = Call(op, s, FALSE, FALSE, FALSE)
    /\ UNCHANGED <<prevOp, boxCounts>>
    /\ UNCHANGED <<gpuVars, cpuVars, cfgVars>>

\* showBoxes.call(s)
ShowBoxes(s) ==
    /\ meshes + boxCounts[s] <= MaxMeshes
    /\ LET new == [i \in 1..boxCounts[s] |-> meshes + i]
       IN /\ children' = [children EXCEPT ![s] = AddAll(@, new)]
          /\ dbgBoxTransforms' =
                [id \in DOMAIN dbgBoxTransforms \cup {s} |->
                    IF id = s THEN Entry(dbgBoxTransforms, s) \o new
                    ELSE dbgBoxTransforms[id]]
    /\ meshes' = meshes + boxCounts[s]
    /\ hid' = {}
    /\ LogBoxes("showBoxes", s)

\* hideBoxes.call(s)
HideBoxes(s) ==
    /\ LET ids == HiddenIds(dbgBoxTransforms, s)
       IN /\ children' =
                [children EXCEPT
                    ![s] = RemoveAll(@, Listed(dbgBoxTransforms, ids))]
          /\ dbgBoxTransforms' =
                [id \in DOMAIN dbgBoxTransforms \ ids |-> dbgBoxTransforms[id]]
    /\ hid' = hid \cup {s}
    /\ UNCHANGED meshes
    /\ LogBoxes("hideBoxes", s)

InitBoxes ==
    /\ NoOverlayUse
    /\ dbgBoxTransforms = <<>>
    /\ children = [s \in Systems |-> {}]
    /\ boxCounts \in [Systems -> 1..2]
    /\ meshes = 0
    /\ hid = {}
    /\ lastOp = Call("new", 0, FALSE, FALSE, FALSE)
    /\ prevOp = Call("none", 0, FALSE, FALSE, FALSE)

NextBoxes ==
    \/ \E s \in Systems : ShowBoxes(s)
    \/ \E s \in Systems : HideBoxes(s)

SpecBoxes == InitBoxes /\ [][NextBoxes]_vars

----------------------------------------------------------------------------
(* Properties of the GPU playback state machines *)

IsTrail == kind = "trail"
IsBase == kind = "base"

\* the state left by an effective GpuParticleTrail start()
JustStarted ==
    /\ IsTrail /\ lastOp.op = "start"
    /\ active /\ starting /\ ~stopping
    /\ timeParam = Unit /\ endTime = 2 * Unit

\* C1 as stated: GpuParticleTrail start() followed by one tick with
\* delta = 1.0 leaves starting = false, endTime = 1.0 and timeParam in [0, 1.0).
C1_AsStated ==
    [][(JustStarted /\ lastOp'.op = "tick" /\ lastOp'.arg = Unit)
        => (~starting' /\ endTime' = Unit /\ timeParam' >= 0 /\ timeParam' < Unit)]_vars

\* C1 amended: after start(), a tick with delta = 1.0 brings the time to 2.0,
\* which does not exceed endTime = 2.0, so the trail is still starting with
\* endTime = 2.0 and timeParam = 2.0; a first tick with delta > 1.0 moves it to
\* steady (starting = false, endTime = 1.0) with timeParam wrapped into (0, 1.0].
C1_StartThenTick ==
    [][(JustStarted /\ lastOp'.op = "tick")
        => IF lastOp'.arg > Unit
           THEN /\ ~starting' /\ endTime' = Unit /\ active'
                /\ timeParam' > 0 /\ timeParam' <= Unit
           ELSE /\ starting' /\ endTime' = 2 * Unit /\ active'
                /\ timeParam' = Unit + lastOp'.arg]_vars

C1_Witness ==
    /\ IsTrail /\ lastOp.op = "tick" /\ lastOp.arg = Unit
    /\ prevOp.op = "start" /\ ~prevOp.act
    /\ starting /\ timeParam = 2 * Unit /\ endTime = 2 * Unit

\* C4: on an active GpuParticleTrail, stop(true) followed by the next tick,
\* whatever its elapsed time, leaves active = false, stopping = false,
\* maxTime = 3.0 and the trail off the listener list.
C4_HardStopThenTick ==
    [][(IsTrail /\ lastOp.op = "stopHard" /\ lastOp.act /\ lastOp'.op = "tick")
        => (~active' /\ ~stopping' /\ maxTimeParam' = 3 * Unit /\ listeners' = 0)]_vars

C4_Witness ==
    /\ IsTrail /\ lastOp.op = "tick" /\ lastOp.arg = 0
    /\ prevOp.op = "stopHard" /\ prevOp.act
    /\ ~active /\ listeners = 0 /\ maxTimeParam = 3 * Unit

\* what finalisation of a stopping trail leaves
Finalised ==
    ~active /\ ~stopping /\ maxTimeParam = 3 * Unit /\ listeners = 0

C6_TrailStart ==
    [][(IsTrail /\ lastOp'.op = "start" /\ (stopping \/ ~active))
        => /\ active' /\ starting' /\ ~stopping'
           /\ endTime' = 2 * Unit /\ decParam' = 2 * Unit
           /\ maxTimeParam' = 2 * Unit /\ timeParam' = Unit
           /\ listeners' = 1]_vars

C6_Witness ==
    /\ IsTrail /\ lastOp.op = "start" /\ lastOp.stp /\ lastOp.act
    /\ active /\ starting /\ ~stopping /\ listeners = 1
    /\ endTime = 2 * Unit /\ timeParam = Unit

\* C7: in a GpuParticleTrail that is starting and not stopping, a tick whose
\* advanced time exceeds endTime moves the trail to steady (starting = false,
\* endTime = decrement = maxTime = 1.0, still active, time wrapped by whole
\* units to at most 1.0); a tick that does not exceed it leaves starting true
\* and those parameters at 2.0.
C7_StartingToSteady ==
    [][(IsTrail /\ lastOp'.op = "tick" /\ starting /\ ~stopping)
        => IF timeParam + lastOp'.arg > endTime
           THEN /\ ~starting' /\ ~stopping' /\ active'
                /\ endTime' = Unit /\ decParam' = Unit /\ maxTimeParam' = Unit
                /\ timeParam' <= Unit
                /\ (timeParam + lastOp'.arg - timeParam') % Unit = 0
           ELSE /\ starting' /\ ~stopping' /\ active'
                /\ endTime' = 2 * Unit /\ decParam' = 2 * Unit
                /\ maxTimeParam' = 2 * Unit]_vars

C7_Witness ==
    /\ IsTrail /\ lastOp.op = "tick" /\ lastOp.stg /\ ~lastOp.stp
    /\ prevOp.op = "tick" /\ prevOp.stg
    /\ ~starting /\ active /\ endTime = Unit /\ maxTimeParam = Unit
    /\ timeParam <= Unit

\* C8: on a base GpuParticleCurveSystem, start() from inactive sets
\* active = true, sysTime = 1.0, maxTime = 1.0 and registers for ticks; stop()
\* from active sets active = false, sysTime = 1.1, maxTime = 3.0 and
\* deregisters.
C8_BaseStartStop ==
    [][/\ (IsBase /\ lastOp'.op = "start" /\ ~active)
          => /\ active' /\ timeParam' = Unit /\ maxTimeParam' = Unit
             /\ listeners' = listeners + 1
       /\ (IsBase /\ lastOp'.op = "stop" /\ active)
          => /\ ~active' /\ timeParam' = Unit + Unit \div 10 /\ maxTimeParam' = 3 * Unit
             /\ listeners' = listeners - 1 /\ listeners' = 0]_vars

C8_Witness ==
    /\ IsBase /\ lastOp.op = "stop" /\ lastOp.act
    /\ prevOp.op = "start" /\ ~prevOp.act
    /\ ~active /\ timeParam = Unit + Unit \div 10 /\ maxTimeParam = 3 * Unit /\ listeners = 0

playback == <<timeParam, maxTimeParam, decParam, endTime, starting, stopping>>

\* C9: on a GPU system (base or trail) that is active, pause() followed
\* directly by play() leaves sysTime, maxTime, the decrement parameter,
\* endTime, starting and stopping as they were before pause(), and the system
\* active and registered once again.
C9_PausePlay ==
    [][/\ (lastOp'.op = "pause" /\ active)
          => (UNCHANGED playback /\ ~active' /\ listeners' = 0)
       /\ (lastOp.op = "pause" /\ lastOp.act /\ lastOp'.op = "play")
          => (UNCHANGED playback /\ active' /\ listeners' = 1)]_vars

C9_Witness ==
    /\ IsTrail /\ lastOp.op = "play" /\ ~lastOp.act /\ lastOp.stg
    /\ prevOp.op = "pause" /\ prevOp.act
    /\ active /\ starting /\ listeners = 1
    /\ timeParam > Unit /\ maxTimeParam = 2 * Unit

\* a GPU system that has been stopped: base after stop(), trail after the
\* tick that finalised a stop
Stopped ==
    /\ ~active /\ ~starting /\ ~stopping
    /\ timeParam = Unit + Unit \div 10 /\ maxTimeParam = 3 * Unit

\* C10: on a stopped GPU system play() behaves as start(): the system becomes
\* active and registered with time = 1.0 and the start sentinels (base:
\* maxTime = 1.0; trail: starting = true, endTime = maxTime = 2.0).
C10_PlayAfterStop ==
    [][(lastOp'.op = "play" /\ Stopped)
        => /\ active' /\ listeners' = 1 /\ timeParam' = Unit
           /\ IsBase => maxTimeParam' = Unit
           /\ IsTrail => /\ starting' /\ ~stopping'
                         /\ endTime' = 2 * Unit /\ maxTimeParam' = 2 * Unit]_vars

C10_Witness ==
    /\ IsTrail /\ lastOp.op = "play" /\ ~lastOp.act
    /\ prevOp.op = "tick" /\ prevOp.stp
    /\ active /\ starting /\ timeParam = Unit /\ endTime = 2 * Unit
    /\ maxTimeParam = 2 * Unit

gpuState == <<active, timeParam, maxTimeParam, decParam, endTime, starting,
              stopping, listeners>>

\* C11 as stated: on every GPU system kind, start() on an active system and
\* pause() on an inactive one change no state.
C11_AsStated ==
    [][/\ (lastOp'.op = "start" /\ active) => UNCHANGED gpuState
       /\ (lastOp'.op = "pause" /\ ~active) => UNCHANGED gpuState]_vars

\* C11 amended: on a base system, and on a trail that is not stopping, start()
\* on an active system changes no state (active, time, maxTime, decrement,
\* endTime, starting, stopping, registration); pause() on an inactive system of
\* either kind changes no state.  start() on an active trail that is stopping
\* is not a no-op: it restarts the trail (starting = true, stopping = false,
\* time = 1.0, endTime = 2.0).
C11_RedundantCalls ==
    [][/\ (lastOp'.op = "start" /\ active /\ ~stopping) => UNCHANGED gpuState
       /\ (lastOp'.op = "pause" /\ ~active) => UNCHANGED gpuState
       /\ (IsTrail /\ lastOp'.op = "start" /\ active /\ stopping)
          => /\ starting' /\ ~stopping' /\ active'
             /\ timeParam' = Unit /\ endTime' = 2 * Unit]_vars

C11_Witness ==
    /\ IsBase /\ lastOp.op = "start" /\ lastOp.act
    /\ prevOp.op = "tick" /\ prevOp.arg > 0
    /\ active /\ listeners = 1 /\ timeParam < Unit /\ maxTimeParam = Unit

\* C12: for both GPU system kinds, in every reachable state the system is on
\* the listener list exactly when active is true, and never more than once;
\* every call or tick that sets active adds one registration and every call
\* or tick that clears active removes one.
C12_Registration ==
    /\ [](listeners = IF active THEN 1 ELSE 0)
    /\ [][/\ (~active /\ active') => listeners' = listeners + 1
          /\ (active /\ ~active') => listeners' = listeners - 1]_vars

C12_Witness ==
    /\ IsTrail /\ lastOp.op = "tick" /\ lastOp.stp /\ lastOp.act
    /\ prevOp.op = "play" /\ ~prevOp.act /\ prevOp.stp
    /\ ~active /\ ~stopping /\ listeners = 0

\* C22 as stated: on an active base GpuParticleCurveSystem
\* 0 <= sysTime < maxTime.
C22_AsStated ==
    (IsBase /\ active) => (0 <= timeParam /\ timeParam < maxTimeParam)

\* C22 amended: on an active base GpuParticleCurveSystem maxTime is 1.0 and
\* 0 < sysTime <= maxTime: start() sets sysTime = maxTime = 1.0, and the wrap
\* of a tick leaves sysTime in (0, 1.0], 1.0 included.
C22_ClockRange ==
    (IsBase /\ active)
    => (maxTimeParam = Unit /\ 0 < timeParam /\ timeParam <= maxTimeParam)

C22_Witness ==
    /\ IsBase /\ active /\ lastOp.op = "tick" /\ lastOp.arg > 2 * Unit
    /\ prevOp.op = "tick" /\ prevOp.arg = Unit \div 2
    /\ timeParam = Unit /\ maxTimeParam = Unit

\* C23: a tick of an active base GPU system with elapsedTime > 0 sets sysTime
\* to the previous sysTime plus elapsedTime/life minus a whole number (zero or
\* more) of units, and the result is greater than 0 and at most 1.0, however
\* many lifetimes the tick spans.
C23_TickWraps ==
    [][(IsBase /\ active /\ lastOp'.op = "tick" /\ lastOp'.arg > 0)
        => LET advanced == timeParam + lastOp'.arg
           IN  /\ timeParam' > 0 /\ timeParam' <= Unit
               /\ advanced - timeParam' >= 0
               /\ (advanced - timeParam') % Unit = 0]_vars

C23_Witness ==
    /\ IsBase /\ active /\ lastOp.op = "tick" /\ lastOp.arg > 2 * Unit
    /\ prevOp.op = "start" /\ ~prevOp.act
    /\ timeParam > 0 /\ timeParam < Unit

\* C24: in every reachable state of a GpuParticleTrail that is active and not
\* stopping (after start(), play() and every tick, whatever its elapsed time),
\* 0 < timeParam <= endTime.
C24_TrailClockRange ==
    (IsTrail /\ active /\ ~stopping) => (0 < timeParam /\ timeParam <= endTime)

C24_Witness ==
    /\ IsTrail /\ active /\ ~stopping /\ ~starting
    /\ lastOp.op = "tick" /\ lastOp.arg > 2 * Unit /\ ~lastOp.stg
    /\ prevOp.op = "tick" /\ prevOp.stg
    /\ endTime = Unit /\ timeParam > 0 /\ timeParam < Unit

----------------------------------------------------------------------------
(* Properties of the CPU path *)

TheParticle == particles[0]

\* C2 as stated: a particle run with k >= 1 loops from ready at frame 1 is
\* back in ready (not active, not destroyed) after exactly k * (lastFrame - 1)
\* update() calls, and is active after every smaller number of calls.
C2_AsStated ==
    runLoops >= 1
    => LET n == runLoops * (TheParticle.lastFrame - 1)
       IN  /\ calls = n
              => (TheParticle.ready /\ ~TheParticle.active /\ ~TheParticle.destroyed)
           /\ calls < n => (TheParticle.active /\ ~TheParticle.ready)

\* C2 amended: a particle with lastFrame >= 2 run with k >= 1 loops from ready
\* at frame 1 is back in ready (not active, not destroyed) after exactly
\* k * (lastFrame - 1) update() calls and is active after every smaller number
\* of calls; a particle with lastFrame = 1 wraps on every update() and is back
\* in ready after exactly k calls.
C2_RunLength ==
    runLoops >= 1
    => LET perLoop == IF TheParticle.lastFrame >= 2
                      THEN TheParticle.lastFrame - 1 ELSE 1
           n == runLoops * perLoop
       IN  /\ calls <= n
           /\ calls = n
              => (TheParticle.ready /\ ~TheParticle.active /\ ~TheParticle.destroyed)
           /\ calls < n => (TheParticle.active /\ ~TheParticle.ready)

C2_Witness ==
    /\ kind = "cpu" /\ lastOp.op = "update" /\ lastOp.act
    /\ runLoops = 2 /\ TheParticle.lastFrame = 3 /\ calls = 4
    /\ TheParticle.ready /\ ~TheParticle.active /\ ~TheParticle.destroyed

\* C3: setRate(r) stores and returns r clamped to [0, maxRate], for every r,
\* and a result of 0 leaves the system inactive; changeRate(d) gives what
\* setRate(pRate + d) gives; with particleCount = 4 and life = 2, maxRate is
\* 2, setRate(10) yields 2 and setRate(0) yields pRate = 0, system inactive.
C3_SetRate ==
    [][/\ (lastOp'.op = "setRate" \/ lastOp'.op = "changeRate")
          => LET r == IF lastOp'.op = "setRate" THEN lastOp'.arg
                      ELSE pRate + lastOp'.arg
                 c == IF r < 0 THEN 0 ELSE IF r > maxRate THEN maxRate ELSE r
             IN  /\ pRate' = c /\ ret' = c
                 /\ c = 0 => ~sysActive'
                 /\ maxRate' = maxRate
       /\ (kind = "cpu" /\ maxParticles = 4 /\ pLife = 2)
          => /\ maxRate = 2
             /\ (lastOp'.op = "setRate" /\ lastOp'.arg = 10) => (pRate' = 2 /\ ret' = 2)
             /\ (lastOp'.op = "setRate" /\ lastOp'.arg = 0)
                => (pRate' = 0 /\ ret' = 0 /\ ~sysActive')]_vars

C3_Witness ==
    /\ kind = "cpu" /\ maxParticles = 4 /\ pLife = 2 /\ maxRate = 2
    /\ lastOp.op = "setRate" /\ lastOp.arg = 10
    /\ pRate = 2 /\ ret = 2

\* a tick of an active system whose timer reaches pTimerMax
Fires == lastOp'.op = "tick" /\ sysActive /\ pTimer + lastOp'.arg >= pTimerMax

\* C13: in a tick that takes the emission decision, a slot at the cursor that
\* was ready is launched with the frame cursor it had (it is not advanced in
\* that tick), and a slot at the cursor that was active has been updated
\* before the decision: if that update finished its run it is launched again
\* in the same tick from frame 1, otherwise it is one frame further.
C13_UpdateBeforeLaunch ==
    [][Fires =>
        LET p == particles[pIndex]
            q == particles'[pIndex]
        IN  /\ p.ready => /\ q.active /\ ~q.ready /\ q.loops = <<1>>
                          /\ q.frame = p.frame
            /\ p.active => /\ q.active /\ ~q.ready /\ q.loops = <<1>>
                           /\ q.frame = IF p.frame + 1 >= p.lastFrame THEN 1
                                        ELSE p.frame + 1]_vars

C13_Witness ==
    /\ kind = "cpu" /\ lastOp.op = "tick" /\ lastOp.act /\ pTimer = 0
    /\ \E i \in Pool :
          /\ NextIndex(i, maxParticles) = pIndex
          /\ particles[i].active /\ particles[i].lastFrame = 3
          /\ particles[i].frame = 1
    /\ \E j \in Pool : particles[j].active /\ particles[j].frame = 2

\* update() as seen on the fields of a particle launched with one loop
Advanced(p, q) ==
    IF p.frame + 1 >= p.lastFrame
    THEN q.frame = 1 /\ q.ready /\ ~q.active
    ELSE q.frame = p.frame + 1 /\ q.active /\ ~q.ready

\* C14: a tick of an inactive CPU-path system launches no particle and leaves
\* pTimer and pIndex unchanged, and still advances every active particle by
\* one update().
C14_InactiveTick ==
    [][(lastOp'.op = "tick" /\ ~sysActive)
        => /\ pTimer' = pTimer /\ pIndex' = pIndex
           /\ \A i \in Pool :
                 /\ ~particles[i].active => particles'[i] = particles[i]
                 /\ particles[i].active => Advanced(particles[i], particles'[i])]_vars

C14_Witness ==
    /\ kind = "cpu" /\ lastOp.op = "tick" /\ ~lastOp.act /\ ~sysActive
    /\ lastOp.arg = TimerUnit /\ pTimerMax > 0 /\ particles[pIndex].ready
    /\ \E i \in Pool : particles[i].active /\ particles[i].frame = 2

AllReady == \A i \in Pool : particles[i].ready /\ ~particles[i].active

\* C15: a soft stop() leaves the system inactive and the particles as they
\* were; while the system is inactive every tick advances each active
\* particle by one update(), takes it to ready when that ends its run, and
\* leaves the ready ones ready; so, ticks continuing, if the system is not
\* started again then from some tick on every particle is ready and none is
\* active.
C15_SoftStopDrains ==
    /\ [][/\ lastOp'.op = "stop" => (~sysActive' /\ particles' = particles)
          /\ (lastOp'.op = "tick" /\ ~sysActive)
             => \A i \in Pool :
                   /\ particles[i].ready => particles'[i].ready
                   /\ particles[i].active
                      => Advanced(particles[i], particles'[i])]_vars
    /\ (<>[]~sysActive => <>[]AllReady)

C15_Witness ==
    /\ kind = "cpu" /\ lastOp.op = "tick" /\ ~lastOp.act /\ ~sysActive
    /\ Cardinality(atStop) >= 2
    /\ AllReady

\* C16: stop(true) leaves the system inactive and, on return, every particle
\* of the pool ready and not active, whatever frame each had reached.
C16_HardStop ==
    [][lastOp'.op = "stopHard"
        => /\ ~sysActive'
           /\ \A i \in Pool : particles'[i].ready /\ ~particles'[i].active]_vars

C16_Witness ==
    /\ kind = "cpu" /\ lastOp.op = "stopHard" /\ lastOp.act /\ ~sysActive
    /\ AllReady
    /\ \E i \in Pool : particles[i].frame = 2 /\ particles[i].lastFrame = 3
    /\ \E j \in Pool : particles[j].frame = 1 /\ particles[j].loops = Undefined
                         /\ ~particles[j].visible

\* C17: setRate(0) makes the system inactive and leaves every particle (its
\* ready and active flags and its frame cursor) as it was; setRate(r) with
\* r > 0 made while pRate is 0 makes the system active.
C17_RateZero ==
    [][/\ (lastOp'.op = "setRate" /\ lastOp'.arg = 0)
          => /\ ~sysActive' /\ pRate' = 0
             /\ \A i \in Pool :
                   /\ particles'[i].ready = particles[i].ready
                   /\ particles'[i].active = particles[i].active
                   /\ particles'[i].frame = particles[i].frame
       /\ (lastOp'.op = "setRate" /\ lastOp'.arg > 0 /\ pRate = 0)
          => sysActive']_vars

C17_Witness ==
    /\ kind = "cpu" /\ lastOp.op = "setRate" /\ lastOp.arg > 0 /\ ~lastOp.act
    /\ sysActive /\ pRate > 0
    /\ \E i \in Pool : particles[i].active /\ particles[i].frame = 2

\* C18 as stated: maxRate equals particleCount / life, and pRate never
\* exceeds it.
C18_AsStated ==
    kind = "cpu" => (maxRate * pLife = maxParticles /\ pRate <= maxRate)

\* C18 amended: maxRate is particleCount / life rounded up to a whole number
\* (the least integer that is at least the quotient, so it equals the
\* quotient only when life divides particleCount), and pRate always lies in
\* [0, maxRate].
C18_MaxRate ==
    kind = "cpu"
    => /\ maxRate * pLife >= maxParticles
       /\ (maxRate - 1) * pLife < maxParticles
       /\ pRate >= 0 /\ pRate <= maxRate

C18_Witness ==
    /\ kind = "cpu" /\ maxParticles = 3 /\ pLife = 2 /\ maxRate = 2
    /\ lastOp.op = "setRate" /\ lastOp.arg = 10 /\ pRate = 2

\* what a tick that attempts a launch does: the timer is back at zero, the
\* cursor is one further modulo the pool size, the slot at the cursor is
\* running its one loop from the frame it had if it was ready, or from frame 1
\* if this tick's update ended its run, and is otherwise one frame further and
\* not launched; every other slot is only updated
Attempt ==
    /\ pTimer' = 0
    /\ pIndex' = (pIndex + 1) % maxParticles
    /\ \A i \in Pool :
          LET p == particles[i]
              q == particles'[i]
          IN  IF i = pIndex
              THEN /\ q.active /\ ~q.ready /\ q.loops = <<1>>
                   /\ q.frame = IF p.ready THEN p.frame
                                ELSE IF p.frame + 1 >= p.lastFrame THEN 1
                                ELSE p.frame + 1
              ELSE /\ ~p.active => q = p
                   /\ p.active => Advanced(p, q)

\* what a tick that attempts no launch does
NoAttempt ==
    /\ pTimer' = pTimer + lastOp'.arg
    /\ pIndex' = pIndex
    /\ \A i \in Pool :
          /\ ~particles[i].active => particles'[i] = particles[i]
          /\ particles[i].active => Advanced(particles[i], particles'[i])

\* C19: on a tick of an active system a launch is attempted only when the
\* accumulated timer has reached 1/pRate; the timer is then reset to zero, the
\* slot at the cursor is launched with loop count 1 if and only if it is
\* ready, and the cursor advances by one modulo the pool size whether or not
\* the slot was launched; otherwise nothing is launched and the cursor stays.
C19_AsStated ==
    [][(lastOp'.op = "tick" /\ sysActive)
        => IF pRate > 0 /\ (pTimer + lastOp'.arg) * pRate >= TimerUnit
           THEN Attempt ELSE NoAttempt]_vars

\* C20: in every reachable state of a Particle exactly one of the flags
\* ready, active and destroyed is true.
C20_AsStated ==
    LET p == TheParticle
        n(b) == IF b THEN 1 ELSE 0
    IN  kind = "cpu" => n(p.ready) + n(p.active) + n(p.destroyed) = 1

\* C21: destroy() on a particle that is not destroyed, whether ready or
\* active, sets destroyed = true and detaches its node from the parent; on a
\* destroyed particle it changes no state; a detached node is never attached
\* again, so the node is released exactly once.
C21_Destroy ==
    [][/\ lastOp'.op = "destroy"
          => IF particles[0].destroyed
             THEN particles' = particles
             ELSE particles'[0].destroyed /\ ~particles'[0].attached
       /\ (kind = "cpu" /\ ~particles[0].attached) => ~particles'[0].attached]_vars

C21_Witness ==
    /\ kind = "cpu" /\ lastOp.op = "destroy" /\ prevOp.op = "destroy"
    /\ prevOp.act /\ TheParticle.active
    /\ TheParticle.destroyed /\ ~TheParticle.attached

----------------------------------------------------------------------------
(* Properties of the configuration: ramps and shader composition *)

\* the ramp the specification gives for the keys a setter was called with:
\* one key becomes two keys, at 0 and at 1.0, with its value; two keys or
\* more keep their values and middle keys and run from 0 to 1.0
Normalised(keys, ramp) ==
    /\ Len(keys) = 1 =>
            /\ Len(ramp) = 2
            /\ ramp[1] = [key |-> 0, value |-> keys[1].value]
            /\ ramp[2] = [key |-> Unit, value |-> keys[1].value]
    /\ Len(keys) >= 2 =>
            /\ Len(ramp) = Len(keys)
            /\ ramp[1].key = 0
            /\ ramp[Len(keys)].key = Unit
            /\ \A i \in 2..(Len(keys) - 1) : ramp[i].key = keys[i].key
            /\ \A i \in 1..Len(keys) : ramp[i].value = keys[i].value

\* C25, as stated: whichever system kind is given one key or more, the ramp
\* it stores is the normalised one: the GPU system's colors and scales after
\* setColorKeys and setScaleKeys, and the keys a CPU particle samples its
\* colours and scales from after setColors and setScales.
C25_AsStated ==
    [][\A keys \in KeyArrays :
        /\ GpuSetColorKeys(keys) => Normalised(keys, colors')
        /\ GpuSetScaleKeys(keys) => Normalised(keys, scales')
        /\ SetColorsAct(keys) => Normalised(keys, colorKeys')
        /\ SetScalesAct(keys) => Normalised(keys, sKeys')]_vars

\* C26, as stated: a ramp setter called with no keys at all raises no
\* error and leaves no ramp: the GPU system's colors or scales are empty,
\* and a CPU particle's setColors or setScales returns normally.
C26_AsStated ==
    [][/\ GpuSetColorKeys(<<>>) => (colors' = <<>> /\ ~threw')
       /\ GpuSetScaleKeys(<<>>) => (scales' = <<>> /\ ~threw')
       /\ SetColorsAct(<<>>) => ~threw'
       /\ SetScalesAct(<<>>) => ~threw']_vars

----------------------------------------------------------------------------
(* Properties of Curve *)

\* the position is the waypoint xpts[i] (1-based)
IsWaypoint(p, i) == ~p.nan /\ p.num = curve.xpts[i] * p.den

EndpointTypes == {"Linear", "Bezier", "CubicHermite", "LinearNorm"}

\* C27, as stated: for every list of two waypoints or more, interpolate(0)
\* is the first waypoint and interpolate(1) the last, for the Linear,
\* Bezier, CubicHermite and LinearNorm types.
C27_AsStated ==
    (curve.type \in EndpointTypes /\ lastOp.op = "interpolate") =>
        /\ point.t = 0 => IsWaypoint(point, 1)
        /\ point.t = TimeSteps => IsWaypoint(point, curve.count)

----------------------------------------------------------------------------
(* Properties of shader composition *)

\* the preconditions of setupShaders, on the fields as they are
Ready == CanSetup(material, materialSrc, boxes, transform)

\* C28, as stated: a configuration call that leaves a precondition of
\* setupShaders unmet raises no error, rewrites no stage, adds no uniform and
\* leaves the uniform values alone; a call that supplies the last missing
\* precondition composes the shader.
C28_AsStated ==
    [][(kind = "base" /\ lastOp'.op = "configure") =>
        /\ ~Ready' =>
              /\ ~threw'
              /\ wove' = {}
              /\ material'.uniforms \subseteq material.uniforms
              /\ UNCHANGED <<timeParam, maxTimeParam, decParam>>
        /\ (~Ready /\ Ready') =>
              /\ ~threw'
              /\ material'.isCurveGen
              /\ BaseUniforms \subseteq material'.uniforms]_vars

\* the composed shader is the variant for the current configuration
Matches ==
    /\ material.isCurveGen
    /\ material.vert.woven = 1
    /\ material.frag.woven = 1
    /\ material.vert.boxes = boxes
    /\ material.vert.aim = aim
    /\ material.vert.colors = (IF Len(colors) > 1 THEN Len(colors) ELSE 0)
    /\ material.vert.scales = (IF Len(scales) > 1 THEN Len(scales) ELSE 0)
    /\ material.frag.colors = (Len(colors) > 1)
    /\ (ColorUniforms \subseteq material.uniforms) = (Len(colors) > 1)
    /\ (ColorUniforms \cap material.uniforms = {}) = (Len(colors) <= 1)
    /\ (ScaleUniforms \subseteq material.uniforms) = (Len(scales) > 1)
    /\ (ScaleUniforms \cap material.uniforms = {}) = (Len(scales) <= 1)

\* C29, as stated: whenever the preconditions of setupShaders are met, the
\* composed shader matches the configuration: colour fragments and uniforms
\* iff the colour ramp has more than one key, scale fragments iff the scale
\* ramp has more than one key, the aim rotation iff aim is set, and the box,
\* colour-key and scale-key counts of the current arrays.
C29_AsStated == (kind = "base" /\ Ready) => Matches

\* what setupShaders composes the shader for
configuration == <<aim, boxes, colors, scales, transform, ptcShape, numPtcs>>

\* a setMaterial call
SetsMaterial == \E m \in MaterialArgs : GpuSetMaterial(m)

\* C30, as stated: once the system's shader has been composed, a further
\* setupShaders call (made by any setter but setMaterial, which brings a
\* new source) weaves no fragments into the untouched base source again:
\* it rewrites no stage.
C30_AsStated ==
    [][(kind = "base" /\ lastOp'.op = "configure" /\ material.isCurveGen
            /\ ~SetsMaterial)
        => wove' = {}]_vars

\* C30, amended: a call rewrites the vertex stage only if the source that
\* setMaterial captured has no interpolation marker and the fragment stage
\* only if it has no colour marker; no stage ever has the fragments woven
\* in twice; and a call made under an unchanged configuration and captured
\* source leaves the composed material as it is.
C30_Idempotent ==
    [][(kind = "base" /\ lastOp'.op = "configure") =>
        /\ "vert" \in wove' => materialSrc'.vert.woven = 0
        /\ "frag" \in wove' => materialSrc'.frag.woven = 0
        /\ material'.vert.woven <= 1
        /\ material'.frag.woven <= 1
        /\ (Ready /\ material.isCurveGen /\ materialSrc' = materialSrc
                /\ configuration' = configuration)
            => material' = material]_vars

\* a setter has run setupShaders on a system that was composed already, and
\* both stages were woven from the captured base source again
C30_Witness ==
    /\ kind = "base"
    /\ lastOp.op = "configure"
    /\ lastOp.arg = 1
    /\ Ready
    /\ wove = {"vert", "frag"}
    /\ materialSrc.vert.woven = 0
    /\ material.vert.woven = 1
    /\ material.vert.aim

\* C31, as stated: hideBoxes() on a system leaves none of the debug box
\* meshes that showBoxes attached on that system's node, and once
\* hideBoxes() has been called on every system no node holds a debug box
\* mesh.
C31_AsStated ==
    /\ lastOp.op = "hideBoxes" => children[lastOp.arg] = {}
    /\ hid = Systems => \A s \in Systems : children[s] = {}

\* the update() call being made brings the loop counter of a running
\* particle to zero
ReachesZero ==
    /\ lastOp'.op = "update"
    /\ TheParticle.active
    /\ ~TheParticle.destroyed
    /\ TheParticle.loops = <<1>>
    /\ TheParticle.frame + 1 >= TheParticle.lastFrame

\* C32, as stated: when the remaining-loop counter of a particle that was
\* run with k >= 1 loops reaches zero, the node is made invisible, the
\* loop counter is k again, active is cleared and ready is set.
C32_AsStated ==
    [][(runLoops >= 1 /\ ReachesZero) =>
        /\ ~TheParticle'.visible
        /\ TheParticle'.loops = <<runLoops>>
        /\ ~TheParticle'.active
        /\ TheParticle'.ready]_vars

\* the interpolations that read the waypoints at a segment index
SegmentTypes == {"Linear", "CubicHermite", "Cardinal", "LinearNorm"}

\* C33: for every curve of two waypoints or more and every t in [0, 1], the
\* segment index used by the Linear, CubicHermite, Cardinal and LinearNorm
\* interpolations lies in 0 .. count - 2, at t = 1 too, so that the reads at
\* index and index + 1 stay inside the waypoint array.
C33_SegmentInRange ==
    (lastOp.op = "interpolate" /\ curve.type \in SegmentTypes /\ curve.count >= 2)
        => /\ point.ndx >= 0
           /\ point.ndx <= curve.count - 2

\* interpolate(1) on a Linear curve of three waypoints used the last segment
C33_Witness ==
    /\ lastOp.op = "interpolate"
    /\ point.t = TimeSteps
    /\ curve.type = "Linear"
    /\ curve.count = 3
    /\ point.ndx = 1
    /\ IsWaypoint(point, 3)

\* C34, as stated: whenever a particle of a CPU-path system is ready, its
\* frame cursor is 1, after any sequence of start, stop (soft or hard),
\* setRate, changeRate and ticks.
C34_AsStated ==
    kind = "cpu" => \A i \in Pool : particles[i].ready => particles[i].frame = 1

\* C35, as stated: while pRate is 0 no tick launches a particle, whatever
\* calls to start() and stop() are made; and whenever the system is active
\* pRate is positive and the emission interval pTimerMax is 1/pRate.
C35_AsStated ==
    [][/\ (lastOp'.op = "tick" /\ pRate = 0)
            => \A i \in Pool : particles[i].ready => particles'[i].ready
       /\ (kind = "cpu" /\ sysActive')
            => (pRate' > 0 /\ pTimerMax' * pRate' = TimerUnit)]_vars

\* C36, as stated: run(loops) never puts a particle into a state from which
\* update() alone cannot bring it back to ready: an active particle has a
\* positive number of loops left, the only values from which the decrement
\* in update() arrives at zero.
C36_AsStated ==
    (TheParticle.active /\ ~TheParticle.destroyed)
    => /\ TheParticle.loops # Undefined
       /\ TheParticle.loops[1] >= 1

\* C37, as stated: in every reachable state of a GpuParticleTrail starting
\* and stopping are never both true, and starting or stopping implies
\* active.
C37_AsStated ==
    IsTrail => /\ ~(starting /\ stopping)
               /\ (starting \/ stopping) => active

\* C37, amended: starting and stopping are never both true, and a trail
\* that is starting or stopping is active unless it was paused: pause() is
\* the only call that leaves a starting or stopping trail inactive, and the
\* trail stays so, with both flags as they are, until play() or start().
\* (A trail is built with both flags false.)
C37_TrailStates ==
    [][IsTrail =>
        /\ ~(starting' /\ stopping')
        /\ ((starting' \/ stopping') /\ ~active')
            => \/ lastOp'.op = "pause" /\ active
               \/ ~active /\ starting' = starting /\ stopping' = stopping]_vars

\* a trail was paused while it was starting
C37_Witness ==
    /\ IsTrail
    /\ lastOp.op = "pause"
    /\ lastOp.act
    /\ lastOp.stg
    /\ starting
    /\ ~stopping
    /\ ~active

\* a stop() call, soft or hard
StopOps == {"stop", "stopHard"}

\* C38, as stated: after stop() returns on a GPU system, from any prior
\* state, the base system has sysTime = 1.1 and maxTime = 3.0 and the trail
\* is stopping or finalised; and a play() that follows a stop() on a system
\* that is then inactive starts it afresh, at time 1.0, instead of going on
\* from the paused time.
C38_AsStated ==
    [][/\ (lastOp'.op \in StopOps /\ IsBase)
            => /\ timeParam' = Unit + Unit \div 10
               /\ maxTimeParam' = 3 * Unit
       /\ (lastOp'.op \in StopOps /\ IsTrail) => (stopping' \/ Finalised')
       /\ (lastOp.op \in StopOps /\ lastOp'.op = "play" /\ ~active)
            => (active' /\ timeParam' = Unit)]_vars

\* C39: the frame cursor of a particle with lastFrame >= 2 satisfies
\* 1 <= frame <= lastFrame - 1 in every reachable state, so that update()
\* reads the colour and matrix arrays within the indices 1 .. lastFrame
\* that were filled when the ramps were set.
C39_FrameRange ==
    \A i \in DOMAIN particles :
        particles[i].lastFrame >= 2
            => /\ particles[i].frame >= 1
               /\ particles[i].frame <= particles[i].lastFrame - 1

\* an update() moved a running particle to the last frame it plays
C39_Witness ==
    /\ lastOp.op = "update"
    /\ lastOp.act
    /\ TheParticle.active
    /\ TheParticle.lastFrame = 3
    /\ TheParticle.frame = 2

\* C40: a setter that ends in setupShaders (setAim, setColorKeys,
\* setScaleKeys, setBoxes, setParticleCount, setParticleShape), called on a
\* GPU system or trail at any point of its playback, leaves sysTime,
\* maxTime, the decrement parameter, the flags active, starting and
\* stopping and the tick registration as they are; and as long as neither
\* start() nor play() has been called the system holds sysTime = 1.1,
\* maxTime = 3.0 and decrement = 1.0, which it is built with.
C40_Recompose ==
    [][/\ lastOp'.op = "configure"
            => UNCHANGED <<timeParam, maxTimeParam, decParam, active,
                           starting, stopping, listeners>>
       /\ ~started'
            => /\ timeParam' = Unit + Unit \div 10
               /\ maxTimeParam' = 3 * Unit
               /\ decParam' = Unit]_vars

\* a setter recomposed the shader of a system in steady playback, half a
\* lifetime into its cycle
C40_Witness ==
    /\ lastOp.op = "configure"
    /\ lastOp.act
    /\ active
    /\ started
    /\ wove = {"vert", "frag"}
    /\ timeParam = Unit \div 2
    /\ maxTimeParam = Unit
    /\ aim

====
